---- MODULE Spec2Model ----
(***************************************************************************)
(* cam-bus: the UplinkManager (internal/uplink/manager.go), its container  *)
(* launcher (internal/uplink/container/manager.go) and the Supervisor's    *)
(* descriptor handling (internal/supervisor/supervisor.go).                *)
(***************************************************************************)
EXTENDS Integers, Sequences, FiniteSets, TLC

VARIABLES
    mode,           \* Manager.mode: "container" | "mediamtx"
    alwaysOn,       \* Manager.alwaysOn (UPLINK_ALWAYS_ON)
    alwaysOnPaths,  \* Manager.alwaysOnPaths (UPLINK_ALWAYS_ON_PATHS, normalised)
    ignoreUplink,   \* Manager.ignoreUplink (IGNORE_UPLINK)
    uplinks,        \* Manager.uplinks: key -> uplinkProcess (domain = keys present)
    containers,     \* the container runtime: name -> "absent" | "running" | "exited"
    live,           \* per container name: processes launched and not stopped since
    mon,            \* history of the Start/Stop calls received for TrackedKey (see MonInit)
    last,           \* what the last operation did (calls to the launcher, statuses emitted)
    mtxGen,         \* Supervisor.mtxGen # nil (MTX_PROXY_CONFIG_PATH is set)
    cameras,        \* Supervisor.cameras: key -> CameraInfo, the stored descriptors
    workers,        \* Supervisor.workers: key -> cameraWorker, the WorkerRecords
    pending,        \* `go refreshMediaMTXConfig()` tasks spawned and not yet run
    mtxPaths,       \* the keys of the media config last written by Generator.Sync
    now,            \* the clock read by time.Now()
    lastSeen,       \* per key: the last payload received on its info topic
    lastValid,      \* per key: the last payload received that was not invalid JSON
    did,            \* what the last step of the Supervisor did
    race,           \* two handleInfoMessage calls running on two transport threads
    pipe,           \* the driver task and the publisher task of the worker of WatchedTopic
    gcfg,           \* the mediamtx.Generator: its fields, set from the environment
    file,           \* the media config file at Generator.path
    router,         \* the path names of the running media router's configuration
    sync,           \* what the last Generator.Sync did (see NoSync)
    shut,           \* the Supervisor's context, and what stopAll did (see NoShut)
    drv,            \* one driver's Run: its position, its context, its out-channel
    srt,            \* one call of BuildSRTURLCandidates: its inputs and its result
    norm,           \* one message of an info topic and the descriptor stored for it
    stat,           \* the status loop: what its last tick published (see NoStat)
    eng,            \* one call of engines.Manager.ProcessAll (see NoEngines)
    inflight        \* the tasks of the Manager under way: timer callbacks, a reconcile pass

-----------------------------------------------------------------------------
(* Bounds of the model *)

MaxStarts == 2      \* Start calls per key the history monitor follows
MaxStops == 2       \* Stop calls per key the history monitor follows
MaxCount == 2       \* cap of uplinkProcess.startCount
MaxPending == 1     \* refresh tasks spawned and not yet run
MaxNow == 2         \* last instant of the clock
MaxEvents == 2      \* events a driver emits
MaxDerived == 1     \* derived events the engines return for one event
MaxCameras == 2     \* descriptors handed to one Generator.Sync
MaxBuffered == 1    \* parts of the stream already read when the context is cancelled
MaxEngines == 2     \* engines of an engines.Manager

(* Program constants *)

defaultSRTPort == 8890
maxRecordDeleteAfter == 600     \* 10 * time.Minute, in seconds
uplinkModeContainer == "container"
uplinkModeMediaMTX == "mediamtx"
DefaultCentralHost == "c1"      \* UPLINK_CENTRAL_HOST of the modelled deployment

-----------------------------------------------------------------------------
(* Strings: the conversions of the code on the strings of the model *)

\* strings.Trim(strings.TrimSpace(s), "/")
TrimPath(s) ==
    CASE s = "/acme/hq/cam1/" -> "acme/hq/cam1"
      [] s = " Cam2 "         -> "Cam2"
      [] OTHER                -> s

\* strings.ToLower
ToLower(s) ==
    CASE s = "Cam2" -> "cam2"
      [] OTHER      -> s

normalizeAlwaysOnKey(raw) == ToLower(TrimPath(raw))

\* container.NameForCentralPath: trim, "/" -> "-", prefix
NameForCentralPath(path) ==
    CASE TrimPath(path) = ""             -> "cam-bus-uplink-default"
      [] TrimPath(path) = "acme/hq/cam1" -> "cam-bus-uplink-acme-hq-cam1"
      [] TrimPath(path) = "Cam2"         -> "cam-bus-uplink-Cam2"
      [] OTHER                           -> "cam-bus-uplink-other"

-----------------------------------------------------------------------------
(* Requests *)

Req(cam, proxy, host, port, central, ttl) ==
    [CameraID |-> cam, ProxyPath |-> proxy, CentralHost |-> host,
     CentralSRTPort |-> port, CentralPath |-> central, TTLSeconds |-> ttl]

\* the requests the callers send (already Normalize()d)
Requests ==
    { Req("cam1", "", "c1", 0,    "acme/hq/cam1", 0),
      Req("cam1", "", "c1", 8890, "acme/hq/cam1", 1),
      Req("cam1", "", "c2", 0,    "acme/hq/cam1", 0),
      Req("Cam2", "", "",   0,    "",             1),
      Req("",     "", "c1", 0,    "",             0) }

applyDefaults(req) ==
    LET r1 == IF req.ProxyPath = "" THEN [req EXCEPT !.ProxyPath = req.CameraID] ELSE req
        r2 == IF r1.CentralPath = "" THEN [r1 EXCEPT !.CentralPath = r1.ProxyPath] ELSE r1
        r3 == IF r2.CentralHost = "" THEN [r2 EXCEPT !.CentralHost = DefaultCentralHost] ELSE r2
    IN  IF r3.CentralSRTPort <= 0 THEN [r3 EXCEPT !.CentralSRTPort = defaultSRTPort] ELSE r3

validateStart(req) ==
    IF req.CameraID = "" THEN "cameraId required"
    ELSE IF req.ProxyPath = "" THEN "proxyPath required"
    ELSE IF req.CentralHost = "" THEN "centralHost required"
    ELSE IF req.CentralPath = "" THEN "centralPath required"
    ELSE "nil"

keyFor(req) == IF req.CentralPath # "" THEN req.CentralPath ELSE req.CameraID

normalizePort(port) == IF port <= 0 THEN defaultSRTPort ELSE port

sameRequest(a, b) ==
    /\ a.CameraID = b.CameraID
    /\ a.ProxyPath = b.ProxyPath
    /\ a.CentralHost = b.CentralHost
    /\ normalizePort(a.CentralSRTPort) = normalizePort(b.CentralSRTPort)
    /\ a.CentralPath = b.CentralPath

\* the keys and the container names of the requests that pass validateStart
ValidRequests == { r \in Requests : validateStart(applyDefaults(r)) = "nil" }
Keys == { keyFor(applyDefaults(r)) : r \in ValidRequests }
Names == { NameForCentralPath(applyDefaults(r).CentralPath) : r \in ValidRequests }

isAlwaysOnRequest(req) ==
    IF ignoreUplink THEN TRUE
    ELSE IF alwaysOn THEN TRUE
    ELSE IF alwaysOnPaths = {} THEN FALSE
    ELSE \E raw \in {req.CentralPath, req.ProxyPath, req.CameraID} :
            raw # "" /\ normalizeAlwaysOnKey(raw) \in alwaysOnPaths

-----------------------------------------------------------------------------
(* uplinkProcess, statuses, the launcher *)

Proc(req, name, ao) ==
    [payload |-> req, container |-> name, containerStatus |-> "running",
     ttlTimer |-> FALSE, alwaysOn |-> ao, startCount |-> 1, stopCount |-> 0]

Status(cam, central, name, state, code, err) ==
    [CameraID |-> cam, CentralPath |-> central, ContainerName |-> name,
     State |-> state, ExitCode |-> code, Error |-> err]

\* Manager.refreshTTL: the timer is stopped, and armed again only for ttlSeconds > 0
\* outside ignore mode and always-on; ttlTimer = TRUE is an armed, pending timer
refreshTTL(proc, ttlSeconds) ==
    IF ignoreUplink THEN [proc EXCEPT !.ttlTimer = FALSE]
    ELSE IF proc.alwaysOn THEN [proc EXCEPT !.ttlTimer = FALSE]
    ELSE IF ttlSeconds <= 0 THEN [proc EXCEPT !.ttlTimer = FALSE]
    ELSE [proc EXCEPT !.ttlTimer = TRUE]

\* container.Manager.Stop: docker rm -f name; the container is gone iff rm succeeded
LauncherStop(cs, name, ok) ==
    IF ok THEN [cs EXCEPT ![name] = "absent"] ELSE cs

\* container.Manager.Start: ensureImage, rm -f name (result ignored), docker run,
\* inspect. What is left under the name, by outcome:
\*   ok            running, the id is returned
\*   err_unchanged ensureImage failed, or rm and run both failed
\*   err_removed   rm succeeded, run failed
\*   err_exited    run succeeded, the container is not running: a StartError
\*   err_orphan    run succeeded, inspect failed: an error, the container runs on
LaunchOutcomes == {"ok", "err_unchanged", "err_removed", "err_exited", "err_orphan"}

LauncherStart(cs, name, outcome) ==
    CASE outcome = "ok"            -> [cs EXCEPT ![name] = "running"]
      [] outcome = "err_unchanged" -> cs
      [] outcome = "err_removed"   -> [cs EXCEPT ![name] = "absent"]
      [] outcome = "err_exited"    -> [cs EXCEPT ![name] = "exited"]
      [] outcome = "err_orphan"    -> [cs EXCEPT ![name] = "running"]

\* Manager.stopProcess: what it calls and what it reports (the caller deletes the entry)
stopCalls(proc) ==
    IF mode = uplinkModeMediaMTX THEN <<>> ELSE << <<"stop", proc.container>> >>

stopStatus(proc, reason, ok) ==
    IF mode = uplinkModeMediaMTX \/ ok
    THEN Status(proc.payload.CameraID, proc.payload.CentralPath, proc.container, "stopped", 0, reason)
    ELSE Status(proc.payload.CameraID, proc.payload.CentralPath, proc.container, "error", 0, "remove docker container")

stopContainers(cs, proc, ok) ==
    IF mode = uplinkModeMediaMTX THEN cs ELSE LauncherStop(cs, proc.container, ok)

\* a Launcher.Stop call stops one launched process of that name, if there is one
Stopped(n, calls) == IF n > calls THEN n - calls ELSE 0

stopLive(lv, proc) ==
    IF mode = uplinkModeMediaMTX THEN lv ELSE [lv EXCEPT ![proc.container] = Stopped(@, 1)]

Remove(ups, key) == [k \in DOMAIN ups \ {key} |-> ups[k]]
Put(ups, key, proc) == [k \in DOMAIN ups \cup {key} |-> IF k = key THEN proc ELSE ups[k]]

-----------------------------------------------------------------------------
(* What an operation did: the calls it made to the launcher, in order, the  *)
(* statuses it sent through the status hook, and what it returned.          *)
(* hit: a Start found an entry with another payload under the key; a Stop   *)
(* or an expired timer found an entry under the key; an operation on a set  *)
(* of entries stopped at least one.                                         *)

NoReq == Req("-", "-", "-", 0, "-", 0)

Event(op, key, req, result, hit, lcalls, statuses) ==
    [op |-> op, key |-> key, req |-> req, result |-> result, hit |-> hit,
     lcalls |-> lcalls, statuses |-> statuses]


-----------------------------------------------------------------------------
(* Manager.Start / Manager.startUplink *)

\* a faulty variant: a Start never coalesces
CoalescesNever(key, req) == FALSE

\* the existing entry a Start coalesces onto (same payload): no launch, startCount + 1
Coalesces(key, req) ==
    key \in DOMAIN uplinks /\ sameRequest(uplinks[key].payload, req)

\* a faulty variant: a Start with another payload does not stop the old process
RestartsNever(key, req) == FALSE

\* the existing entry a Start stops first ("restarting with new payload")
Restarts(key, req) ==
    key \in DOMAIN uplinks /\ ~sameRequest(uplinks[key].payload, req)

\* the entry a coalesced Start leaves
CoalescedProc(existing, req, ao) ==
    refreshTTL([existing EXCEPT !.startCount = @ + 1, !.alwaysOn = ao], req.TTLSeconds)

\* the entry a launching Start records
NewProc(req, name, ao) == refreshTTL(Proc(req, name, ao), req.TTLSeconds)

RunningStatus(req, name) == Status(req.CameraID, req.CentralPath, name, "running", 0, "")
ErrorStatus(req, name) == Status(req.CameraID, req.CentralPath, name, "error", 0, "start container uplink")

\* the launcher is reached: the request is valid, nothing to coalesce, container mode
Launches(req) ==
    /\ validateStart(applyDefaults(req)) = "nil"
    /\ ~Coalesces(keyFor(applyDefaults(req)), applyDefaults(req))
    /\ mode = uplinkModeContainer

\* Start(req); outcome is the launcher's, stopOk the result of Launcher.Stop on a restart
StartStep(req, outcome, stopOk) ==
    LET r == applyDefaults(req)
        key == keyFor(r)
        name == NameForCentralPath(r.CentralPath)
        re == Restarts(key, r)
    IN  IF validateStart(r) # "nil"
        THEN UNCHANGED <<uplinks, containers, live>>
        ELSE IF Coalesces(key, r)
        THEN /\ uplinks' = [uplinks EXCEPT ![key] = CoalescedProc(@, r, isAlwaysOnRequest(r))]
             /\ UNCHANGED <<containers, live>>
        ELSE IF mode = uplinkModeMediaMTX
        THEN /\ uplinks' = Put(uplinks, key, NewProc(r, "mediamtx-proxy", isAlwaysOnRequest(r)))
             /\ UNCHANGED <<containers, live>>
        ELSE LET cs1 == IF re THEN stopContainers(containers, uplinks[key], stopOk) ELSE containers
                 lv1 == IF re THEN stopLive(live, uplinks[key]) ELSE live
             IN  /\ containers' = LauncherStart(cs1, name, outcome)
                 /\ IF outcome = "ok"
                    THEN /\ uplinks' = Put(uplinks, key, NewProc(r, name, isAlwaysOnRequest(r)))
                         /\ live' = [lv1 EXCEPT ![name] = @ + 1]
                    ELSE \* the error return: an existing entry stays in the table, its
                         \* timer stopped by stopProcess
                         /\ uplinks' = IF re THEN [uplinks EXCEPT ![key].ttlTimer = FALSE]
                                       ELSE uplinks
                         /\ live' = lv1

StartEv(req, outcome, stopOk) ==
    LET r == applyDefaults(req)
        key == keyFor(r)
        name == NameForCentralPath(r.CentralPath)
        re == Restarts(key, r)
        calls1 == IF re THEN stopCalls(uplinks[key]) ELSE <<>>
        sts1 == IF re THEN {stopStatus(uplinks[key], "restarting with new payload", stopOk)} ELSE {}
    IN  IF validateStart(r) # "nil"
        THEN Event("Start", key, req, validateStart(r), FALSE, <<>>, {})
        ELSE IF Coalesces(key, r)
        THEN Event("Start", key, req, "nil", FALSE, <<>>, {})
        ELSE IF mode = uplinkModeMediaMTX
        THEN Event("Start", key, req, "nil", re, <<>>, sts1 \cup {RunningStatus(r, "mediamtx-proxy")})
        ELSE IF outcome = "ok"
        THEN Event("Start", key, req, "nil", re, calls1 \o << <<"start", name>> >>,
                   sts1 \cup {RunningStatus(r, name)})
        ELSE Event("Start", key, req, "start container uplink", re,
                   calls1 \o << <<"start", name>> >>, sts1 \cup {ErrorStatus(r, name)})

\* the inputs drawn for a Start: a launcher outcome and a Launcher.Stop result only
\* where the call is made
StartOutcomes(req) == IF Launches(req) THEN LaunchOutcomes ELSE {"ok"}
StartStopOks(req) ==
    IF Launches(req) /\ Restarts(keyFor(applyDefaults(req)), applyDefaults(req))
    THEN BOOLEAN ELSE {TRUE}

\* startCount is followed up to MaxCount
StartInRange(req) ==
    Coalesces(keyFor(applyDefaults(req)), applyDefaults(req)) /\ validateStart(applyDefaults(req)) = "nil"
        => uplinks[keyFor(applyDefaults(req))].startCount < MaxCount

-----------------------------------------------------------------------------
(* Manager.Stop / Manager.stopUplink *)

\* a faulty variant: every Stop that finds the entry terminates it
TerminatesAtOnce(proc) == TRUE

\* a faulty variant: a Stop terminates only once stopCount exceeds startCount
TerminatesLate(proc) == proc.stopCount + 1 > proc.startCount

\* stopUplink, after stopCount++: the process is terminated and the entry deleted
Terminates(proc) == proc.stopCount + 1 >= proc.startCount

\* stopUplink(cameraKey, reason) on the table ups, for the Stop command and for the
\* TTL timer (ups is then the table with that timer fired)
stopUplinkStep(ups, key, stopOk) ==
    IF ignoreUplink \/ key \notin DOMAIN ups
    THEN /\ uplinks' = ups
         /\ UNCHANGED <<containers, live>>
    ELSE IF Terminates(ups[key])
    THEN /\ uplinks' = Remove(ups, key)
         /\ containers' = stopContainers(containers, ups[key], stopOk)
         /\ live' = stopLive(live, ups[key])
    ELSE /\ uplinks' = [ups EXCEPT ![key].stopCount = @ + 1]
         /\ UNCHANGED <<containers, live>>

stopUplinkEv(op, req, ups, key, reason, stopOk) ==
    IF ignoreUplink
    THEN Event(op, key, req, "nil", FALSE, <<>>, {})
    ELSE IF key \notin DOMAIN ups
    THEN Event(op, key, req, "uplink not running", FALSE, <<>>, {})
    ELSE IF Terminates(ups[key])
    THEN Event(op, key, req, "nil", TRUE, stopCalls(ups[key]), {stopStatus(ups[key], reason, stopOk)})
    ELSE Event(op, key, req, "nil", TRUE, <<>>, {})

\* whether stopUplink on key reaches Launcher.Stop (whose result is then drawn)
CallsLauncherStop(key) ==
    /\ ~ignoreUplink
    /\ key \in DOMAIN uplinks
    /\ Terminates(uplinks[key])
    /\ mode = uplinkModeContainer

\* Manager.Stop: ignored for an always-on request, else stopUplink(key, "stop command")
StopStep(req, stopOk) ==
    IF isAlwaysOnRequest(applyDefaults(req))
    THEN UNCHANGED <<uplinks, containers, live>>
    ELSE stopUplinkStep(uplinks, keyFor(applyDefaults(req)), stopOk)

StopEv(req, stopOk) ==
    IF isAlwaysOnRequest(applyDefaults(req))
    THEN Event("Stop", keyFor(applyDefaults(req)), req, "nil", FALSE, <<>>, {})
    ELSE stopUplinkEv("Stop", req, uplinks, keyFor(applyDefaults(req)), "stop command", stopOk)

StopOks(req) ==
    IF ~isAlwaysOnRequest(applyDefaults(req)) /\ CallsLauncherStop(keyFor(applyDefaults(req)))
    THEN BOOLEAN ELSE {TRUE}

\* the single-shot timer armed by refreshTTL fires: stopUplink(proc.cameraKey, "ttl expired")
Fired(key) == [uplinks EXCEPT ![key].ttlTimer = FALSE]

TTLEnabled(key) == key \in DOMAIN uplinks /\ uplinks[key].ttlTimer
TTLOks(key) == IF CallsLauncherStop(key) THEN BOOLEAN ELSE {TRUE}

TTLStep(key, stopOk) == stopUplinkStep(Fired(key), key, stopOk)
TTLEv(key, stopOk) == stopUplinkEv("TTL", NoReq, Fired(key), key, "ttl expired", stopOk)

-----------------------------------------------------------------------------
(* Stopping a set of entries: StopByCamera, StopAll, reconcileOnce *)

RECURSIVE CallsFor(_)
CallsFor(S) ==
    IF S = {} THEN <<>>
    ELSE LET k == CHOOSE x \in S : TRUE
         IN  stopCalls(uplinks[k]) \o CallsFor(S \ {k})

\* stopProcess + delete for every key of S; oks: the keys whose Launcher.Stop succeeded
StopSetStep(S, oks) ==
    /\ uplinks' = [k \in DOMAIN uplinks \ S |-> uplinks[k]]
    /\ containers' = [n \in Names |->
            IF mode = uplinkModeContainer /\ \E k \in S \cap oks : uplinks[k].container = n
            THEN "absent" ELSE containers[n]]
    /\ live' = [n \in Names |->
            IF mode = uplinkModeContainer
            THEN Stopped(live[n], Cardinality({k \in S : uplinks[k].container = n}))
            ELSE live[n]]

StopSetEv(op, S, oks, reason, statuses) ==
    Event(op, "", NoReq, "nil", S # {}, CallsFor(S),
          statuses \cup {stopStatus(uplinks[k], reason, k \in oks) : k \in S})

\* the Launcher.Stop results drawn for the keys of S
StopSetOks(S) == IF mode = uplinkModeMediaMTX THEN {S} ELSE SUBSET S

\* the keys StopByCamera looks up: centralPath, proxyPath, deviceId (trimmed, non-empty)
Candidates(info) ==
    {TrimPath(info.CentralPath), TrimPath(info.ProxyPath), TrimPath(info.DeviceID)} \ {""}

\* whether StopByCamera returns at once
StopByCameraSkips == ignoreUplink \/ alwaysOn

\* the entries StopByCamera stops and deletes
StopByCameraSet(info) ==
    IF StopByCameraSkips THEN {} ELSE Candidates(info) \cap DOMAIN uplinks

StopByCameraStep(info, oks) == StopSetStep(StopByCameraSet(info), oks)
StopByCameraEv(info, oks) ==
    StopSetEv("StopByCamera", StopByCameraSet(info), oks, "camera cleanup", {})

\* the entries StopAll stops and deletes
StopAllSet == IF ignoreUplink THEN {} ELSE DOMAIN uplinks

StopAllStep(oks) == StopSetStep(StopAllSet, oks)
StopAllEv(oks) == StopSetEv("StopAll", StopAllSet, oks, "shutdown", {})

-----------------------------------------------------------------------------
(* Manager.reconcileOnce, one pass of the loop of startReconciler *)

\* container.Manager.InspectStatus on a container of the runtime
InspectState(name) == containers[name]
InspectExitCode(name) == IF containers[name] = "exited" THEN 1 ELSE 0
InspectError(name) == IF containers[name] = "exited" THEN "boom" ELSE ""

\* startReconciler: the loop runs in container mode only
ReconcilerRuns == mode = uplinkModeContainer

\* the entries a pass looks at: none outside container mode
Snapshots == IF mode # uplinkModeContainer THEN {} ELSE DOMAIN uplinks

\* the entries whose inspect returns an error whatever else happens: no such container
InspectMustFail == {k \in Snapshots : containers[uplinks[k].container] = "absent"}

InspectStatusOf(k) ==
    Status(uplinks[k].payload.CameraID, uplinks[k].payload.CentralPath, uplinks[k].container,
           InspectState(uplinks[k].container), InspectExitCode(uplinks[k].container),
           InspectError(uplinks[k].container))

\* a faulty variant: a pass removes nothing
ReapedNone(failed) == {}

\* the entries a pass terminates and removes, failed being those whose inspect failed
Reaped(failed) ==
    {k \in Snapshots \ failed : InspectState(uplinks[k].container) # "running"}

\* the entries whose inspect fails in a pass: those, and any other (docker unreachable)
InspectFailures == {InspectMustFail \cup F : F \in SUBSET (Snapshots \ InspectMustFail)}

ReconcileStep(failed, oks) == StopSetStep(Reaped(failed), oks)
ReconcileEv(failed, oks) ==
    StopSetEv("Reconcile", Reaped(failed), oks, "container state",
              {InspectStatusOf(k) : k \in Snapshots \ failed})

\* the environment: a republisher process exits (crash, end of stream)
ContainerExits(name) ==
    /\ containers[name] = "running"
    /\ containers' = [containers EXCEPT ![name] = "exited"]
    /\ UNCHANGED <<uplinks, live>>

ExitEv == Event("Exit", "", NoReq, "nil", FALSE, <<>>, {})

-----------------------------------------------------------------------------
(* History of the Start and Stop calls received for one key.  phase:        *)
(*   idle      nothing received yet                                         *)
(*   starting  only successful Starts, all with the payload `first`         *)
(*   stopping  those Starts, then only Stops that found the entry           *)
(*   mixed     any other sequence of Starts with that payload and Stops     *)
(*   off       something else touched the key (another payload, TTL expiry, *)
(*             stop-by-camera, StopAll, reconcile removal) or the counters  *)
(*             left their range: the history is not followed any further    *)
(* n  = Starts received, m = Stops received                                 *)
(* e  = Starts that returned success - Stops that found an entry            *)
(* ls = Launcher.Start successes, lp = Launcher.Stop calls (starting and    *)
(*      stopping phases only)                                               *)

TrackedKey == "acme/hq/cam1"

MonInit == [phase |-> "idle", first |-> NoReq, n |-> 0, m |-> 0, e |-> 0, ls |-> 0, lp |-> 0]
MonOff == [MonInit EXCEPT !.phase = "off"]

IsCall(ev, kind) == \E i \in 1..Len(ev.lcalls) : ev.lcalls[i][1] = kind

MonStart(h, ev) ==
    LET ok == ev.result = "nil"
        ph == IF ok /\ h.phase \in {"idle", "starting"} THEN "starting" ELSE "mixed"
    IN  IF h.phase = "off" THEN h
        ELSE IF h.first # NoReq /\ ev.req # h.first THEN MonOff
        ELSE IF h.n + 1 > MaxStarts THEN MonOff
        ELSE [phase |-> ph, first |-> ev.req, n |-> h.n + 1, m |-> h.m,
              e |-> h.e + (IF ok THEN 1 ELSE 0),
              ls |-> IF ph = "starting" THEN h.ls + (IF IsCall(ev, "start") THEN 1 ELSE 0) ELSE 0,
              lp |-> 0]

MonStop(h, ev) ==
    LET ph == IF ev.hit /\ h.phase \in {"starting", "stopping"} THEN "stopping" ELSE "mixed"
    IN  IF h.phase = "off" THEN h
        ELSE IF h.m + 1 > MaxStops THEN MonOff
        ELSE [phase |-> ph, first |-> h.first, n |-> h.n, m |-> h.m + 1,
              e |-> h.e - (IF ev.hit THEN 1 ELSE 0),
              ls |-> IF ph = "stopping" THEN h.ls ELSE 0,
              lp |-> IF ph = "stopping" THEN h.lp + (IF IsCall(ev, "stop") THEN 1 ELSE 0) ELSE 0]

\* the history after an operation; once an operation other than Start and Stop
\* removed the entry, or its timer fired, the key is followed no further
MonStep(ev) ==
    IF ev.op = "Start" /\ ev.key = TrackedKey /\ validateStart(applyDefaults(ev.req)) = "nil"
        THEN MonStart(mon, ev)
    ELSE IF ev.op = "Stop" /\ ev.key = TrackedKey THEN MonStop(mon, ev)
    ELSE IF ev.op \notin {"Start", "Stop"} /\ TrackedKey \in DOMAIN uplinks \ DOMAIN uplinks'
        THEN MonOff
    ELSE IF ev.op = "TTL" /\ ev.key = TrackedKey THEN MonOff
    ELSE mon

-----------------------------------------------------------------------------
(* The Supervisor: descriptors on <base>/tenant/building/floor/type/id/info *)

\* the identity a topic carries
Topic(dev) ==
    [Tenant |-> "acme", Building |-> "hq", Floor |-> "1", DeviceType |-> "ipcam", DeviceID |-> dev]
Topics == {Topic("cam1"), Topic("Cam2")}

\* Supervisor.keyFor: tenant|building|floor|type|id
supervisorKeyFor(info) ==
    <<info.Tenant, info.Building, info.Floor, info.DeviceType, info.DeviceID>>
SupKeys == {supervisorKeyFor(t) : t \in Topics}

\* a payload: empty, the literal null, bytes that are not a JSON object, or a JSON
\* descriptor (manufacturer, ip, enabled, central_host)
Payload(kind, man, ip, enabled, host) ==
    [kind |-> kind, Manufacturer |-> man, IP |-> ip, Enabled |-> enabled, CentralHost |-> host]
NoPayload == Payload("none", "", "", FALSE, "")
EmptyPayload == Payload("empty", "", "", FALSE, "")
NullPayload == Payload("null", "", "", FALSE, "")
InvalidPayload == Payload("invalid", "", "", FALSE, "")
Payloads ==
    { EmptyPayload, NullPayload, InvalidPayload,
      Payload("json", "Hikvision", "10.0.0.10", TRUE, ""),
      Payload("json", "Hikvision", "10.0.0.10", TRUE, "c1"),
      Payload("json", "Hikvision", "10.0.0.11", TRUE, ""),
      Payload("json", "Acme", "10.0.0.10", TRUE, ""),
      Payload("json", "Hikvision", "10.0.0.10", FALSE, "") }

\* the payloads published on a topic
PayloadsFor(topic) ==
    IF topic.DeviceID = "cam1" THEN Payloads
    ELSE { EmptyPayload,
           Payload("json", "Hikvision", "10.0.0.10", TRUE, ""),
           Payload("json", "Hikvision", "10.0.0.10", FALSE, "") }

\* bytes.TrimSpace(payload) is empty or "null"
IsTombstone(p) == p.kind \in {"empty", "null"}

\* uplink.CentralPathFor: path.Join(tenant, building, deviceId)
CentralPathFor(info) ==
    CASE info.DeviceID = "cam1" -> "acme/hq/cam1"
      [] info.DeviceID = "Cam2" -> "acme/hq/Cam2"
      [] OTHER                  -> "acme/hq"

\* the CameraInfo of a tombstone: the identity of the topic and nothing else
TombstoneInfo(topic) ==
    [Tenant |-> topic.Tenant, Building |-> topic.Building, Floor |-> topic.Floor,
     DeviceType |-> topic.DeviceType, DeviceID |-> topic.DeviceID,
     Manufacturer |-> "", IP |-> "", Enabled |-> FALSE,
     ProxyPath |-> "", CentralHost |-> "", CentralPath |-> ""]

\* the CameraInfo of a JSON descriptor: json.Unmarshal, the identity of the topic, the
\* defaults of proxy_path (the device id) and central_path (CentralPathFor)
DecodedInfo(topic, p) ==
    LET i1 == [TombstoneInfo(topic) EXCEPT !.Manufacturer = p.Manufacturer, !.IP = p.IP,
                                           !.Enabled = p.Enabled, !.CentralHost = p.CentralHost]
        i2 == IF i1.ProxyPath = "" THEN [i1 EXCEPT !.ProxyPath = i1.DeviceID] ELSE i1
    IN  IF i2.CentralPath = "" THEN [i2 EXCEPT !.CentralPath = CentralPathFor(i2)] ELSE i2

\* a faulty variant: every descriptor counts as a change
cameraInfoNeverEqual(a, b) == FALSE

\* cameraInfoEqual: the fields compared (central_host is not one of them)
cameraInfoEqual(a, b) ==
    /\ supervisorKeyFor(a) = supervisorKeyFor(b)
    /\ a.Manufacturer = b.Manufacturer
    /\ a.IP = b.IP
    /\ a.Enabled = b.Enabled
    /\ a.ProxyPath = b.ProxyPath
    /\ a.CentralPath = b.CentralPath

\* drivers.normalize: lower case, without space, dash, underscore
normalize(str) ==
    CASE str = "Hikvision" -> "hikvision"
      [] str = "Acme"      -> "acme"
      [] OTHER             -> str

\* the manufacturers registered with model "any" (hikvision.go, dahua.go)
Registry == {"hikvision", "dahua"}

\* a faulty variant: a driver for every manufacturer
GetDriverAlways(info) == TRUE

\* drivers.GetDriver finds a factory
GetDriver(info) == normalize(info.Manufacturer) \in Registry

\* the Request handleInfoMessage builds from a descriptor with a central_host
UplinkRequest(info) ==
    Req(info.DeviceID, info.ProxyPath, info.CentralHost, 0, info.CentralPath, 0)

\* the WorkerRecord startOrUpdateCamera creates
NewWorker(info) ==
    [info |-> info, status |-> "connecting",
     statusReason |-> "aguardando conexao", statusSince |-> now, lastEventAt |-> 0,
     everConnected |-> FALSE]

\* a faulty variant: the record stays
stopCameraKeeps(ws, key) == ws

\* Supervisor.stopCamera: the worker of key is cancelled and its record deleted
stopCamera(ws, key) == [k \in DOMAIN ws \ {key} |-> ws[k]]
stopCameraCancels(ws, key) == IF key \in DOMAIN ws THEN {key} ELSE {}

\* Supervisor.removeCameraInfo, Supervisor.upsertCameraInfo
removeCameraInfo(cs, key) == [k \in DOMAIN cs \ {key} |-> cs[k]]
upsertCameraInfo(cs, key, info) == [k \in DOMAIN cs \cup {key} |-> IF k = key THEN info ELSE cs[k]]

\* Supervisor.refreshMediaMTXConfig on the descriptors cs: Generator.Sync writes the
\* config of their paths, or fails and leaves the config; nothing without a generator
refreshMediaMTXConfig(cs, syncOk) == IF mtxGen /\ syncOk THEN DOMAIN cs ELSE mtxPaths

\* what a step of the Supervisor did. kind: how the payload was handled; repeat: the
\* payload is the one last received on the topic; cancelled: the keys of the workers
\* whose cancel() was called; started: a worker (context, record, driver task and
\* publisher task) was started; uplink: the call made to the
\* UplinkManager; refresh: refreshMediaMTXConfig called in the handler ("sync"), spawned
\* as tasks ("async") or not called ("none")
Did(op, key, kind, repeat, canc, started, uplinkCall, refresh) ==
    [op |-> op, key |-> key, kind |-> kind, repeat |-> repeat, cancelled |-> canc,
     started |-> started, uplink |-> uplinkCall, refresh |-> refresh]
NoKey == <<"", "", "", "", "">>
Quiet(op) == Did(op, NoKey, "none", FALSE, {}, FALSE, "none", "none")

\* two calls of handleInfoMessage on the threads 1 and 2. phase: "idle" before the
\* calls, "running" while one of them has steps left, "done" when both have returned;
\* base: the cameras and workers tables when the calls began; th[i]: the payload of
\* call i and the critical section it is about to enter (0: it has returned)
Thread(pc, msg) == [pc |-> pc, msg |-> msg]
RaceIdle ==
    [phase |-> "idle", base |-> <<[k \in {} |-> NoPayload], [k \in {} |-> NoPayload]>>,
     th |-> <<Thread(0, NoPayload), Thread(0, NoPayload)>>]

\* the tasks of one worker. phase: "none" before a worker was started, "running"
\* while its publisher task runs, "ended" after; ctx: the worker's context; driver:
\* drv.Run is running or has returned (eventsCh is closed then); next: the number of
\* the next event of the driver; ch: eventsCh; step: the publisher waits for an event
\* ("idle"), has published one and is about to call ProcessAll ("took") or publishes
\* the derived events ("derived"); cur: the event it received last (id 0: none); todo:
\* the derived events of cur; done: how many of them went to Publish; pub: the
\* payloads published to the bus, in order; stopped: the handler of a tombstone or of
\* a disabled descriptor has returned
AnalyticEvent(id, kind, n, shape) ==
    [id |-> id, kind |-> kind, n |-> n,
     SnapshotB64 |-> shape.SnapshotB64, RawSnapshot |-> shape.RawSnapshot]
\* what a driver or an engine puts into the snapshot fields of an event
Shapes == { [SnapshotB64 |-> "", RawSnapshot |-> ""],
            [SnapshotB64 |-> "img", RawSnapshot |-> "raw"] }
NoEvent == AnalyticEvent(0, "none", 0, [SnapshotB64 |-> "", RawSnapshot |-> ""])
\* old: the two tasks of the worker that was cancelled last (NoTasks: there is none):
\* its driver task, its publisher task, the events left in its channel, and whether
\* its driver is status-aware; fresh: the worker of the record has reported a state
\* or an event
NoTasks == [driver |-> "none", fan |-> "none", ch |-> 0, aware |-> FALSE]
PipeNone ==
    [phase |-> "none", ctx |-> "live", driver |-> "returned", next |-> 1, ch |-> <<>>,
     step |-> "idle", cur |-> NoEvent, todo |-> <<>>, done |-> 0, pub |-> <<>>,
     stopped |-> FALSE, old |-> NoTasks, fresh |-> FALSE]

-----------------------------------------------------------------------------
(* The media config generator (mediamtx.Generator) *)

\* the Generator NewGeneratorFromEnv (central = FALSE) or NewCentralGeneratorFromEnv
\* (central = TRUE: useCentralPaths, sourceFromProxy, preserveDefaults) returns.
\* creds: MTX_*_API_USER / MTX_*_API_PASS are set; apply: "api" with a reload URL,
\* "pid" with a reload PID only; recordDeleteAfter: the retention ceiling, in seconds
Generator(central, creds, apply, retention) ==
    [central |-> central, creds |-> creds, apply |-> apply, recordDeleteAfter |-> retention]

\* MTX_*_RECORD_DELETE_AFTER: unset (0), 5m, 30m
RetentionEnvs == {0, 300, 1800}
\* parseDurationEnv and the limit of NewGeneratorFromEnv
retentionFromEnv(v) ==
    IF v <= 0 THEN maxRecordDeleteAfter
    ELSE IF v > maxRecordDeleteAfter THEN maxRecordDeleteAfter ELSE v

\* formatDuration of a whole number of minutes
formatDuration(d) ==
    CASE d = 600 -> "10m"
      [] d = 300 -> "5m"
      [] d = 180 -> "3m"
      [] OTHER   -> "0m"

\* the duration a recordDeleteAfter string of a config stands for, in seconds
DurationOf(str) ==
    CASE str = "10m" -> 600
      [] str = "5m"  -> 300
      [] str = "3m"  -> 180
      [] str = "24h" -> 86400
      [] OTHER       -> 0

\* the descriptors the Supervisor stores: proxy_path and central_path are never
\* empty, record_enabled is as the descriptor says
GenCamera(id, proxy, central, rtsp, record, minutes) ==
    [DeviceID |-> id, ProxyPath |-> proxy, CentralPath |-> central, RTSPURL |-> rtsp,
     RecordEnabled |-> record, RecordRetentionMinutes |-> minutes]
\* two cameras with one central_path, and a third that is not recorded
GenCameras ==
    { GenCamera("cam1", "front", "acme/hq/door", "rtsp://a", TRUE, 1440),
      GenCamera("Cam2", "back", "acme/hq/door", "rtsp://b", TRUE, 3),
      GenCamera("cam3", "front", "acme/hq/cam3", "rtsp://c", FALSE, 0) }

\* the enumerations of a set: the orders in which a Go map is ranged over
Orders(S) ==
    {f \in [1..Cardinality(S) -> S] : \A i, j \in 1..Cardinality(S) : i # j => f[i] # f[j]}
\* snapshotCameraInfos: the stored descriptors, in the order of the map iteration
CameraLists ==
    UNION {Orders(S) : S \in {T \in SUBSET GenCameras : Cardinality(T) <= MaxCameras}}

\* Config: global: the settings outside pathDefaults and paths ("base": those of
\* baseConfig; "zero": of Config{}); users: authInternalUsers ("none": nil; "built": as
\* authUsersForAPI builds them, with IPs = []string{}; "decoded": as yaml.Unmarshal
\* returns them, with IPs = nil); defaults: pathDefaults.recordDeleteAfter
Config(global, users, defaults, paths) ==
    [global |-> global, users |-> users, defaults |-> defaults, paths |-> paths]
PathConfig(source, record, deleteAfter) ==
    [Source |-> source, Record |-> record, RecordDeleteAfter |-> deleteAfter]
NoPaths == [n \in {} |-> PathConfig("", "unset", "")]
NoConfig == Config("zero", "none", "", NoPaths)

authUsersForAPI(creds) == IF creds THEN "built" ELSE "none"

baseConfig(retention, creds) ==
    Config("base", authUsersForAPI(creds), formatDuration(retention), NoPaths)

\* marshalConfig: `ips` is omitempty, so the empty list of a built user is not written
marshalConfig(cfg) == [cfg EXCEPT !.users = IF @ = "none" THEN "none" ELSE "listed"]
\* yaml.Unmarshal of a config file
Unmarshal(text) == [text EXCEPT !.users = IF @ = "listed" THEN "decoded" ELSE "none"]

\* the file at Generator.path: missing ("absent"), not YAML ("invalid"), or the text
\* of a config ("yaml")
File(state, text) == [state |-> state, text |-> text]
AbsentFile == File("absent", NoConfig)
InvalidFile == File("invalid", NoConfig)
\* a config file another tool wrote
ForeignFile ==
    File("yaml", Config("foreign", "none", "24h",
                        [n \in {"old", "front"} |-> PathConfig("rtsp://old", "unset", "")]))
Files == {AbsentFile, InvalidFile, ForeignFile}

\* readExistingConfig: no file and a file that is not YAML give (Config{}, false)
readExistingConfig(f) ==
    IF f.state # "yaml" THEN [cfg |-> NoConfig, exists |-> FALSE]
    ELSE [cfg |-> Unmarshal(f.text), exists |-> TRUE]

pathNameFor(g, info) ==
    IF g.central
    THEN IF info.CentralPath = "" THEN CentralPathFor(info) ELSE info.CentralPath
    ELSE IF info.ProxyPath = "" THEN info.DeviceID ELSE info.ProxyPath

\* sourceURLFor: <proxyRTSPBase>/<proxyPath> from the proxy, the camera's RTSP URL else
sourceURLFor(g, info) ==
    IF g.central
    THEN CASE info.ProxyPath = "front" -> "rtsp://localhost:8554/front"
           [] info.ProxyPath = "back"  -> "rtsp://localhost:8554/back"
           [] OTHER                    -> ""
    ELSE info.RTSPURL

retentionForCamera(info, defaultRetention) ==
    IF info.RecordRetentionMinutes <= 0 THEN defaultRetention
    ELSE IF info.RecordRetentionMinutes * 60 > defaultRetention THEN defaultRetention
    ELSE info.RecordRetentionMinutes * 60

pathConfigFor(info, rtspURL, defaultRetention) ==
    IF ~info.RecordEnabled THEN PathConfig(rtspURL, "false", "")
    ELSE IF retentionForCamera(info, defaultRetention) # defaultRetention
    THEN PathConfig(rtspURL, "unset", formatDuration(retentionForCamera(info, defaultRetention)))
    ELSE PathConfig(rtspURL, "unset", "")

\* the loop of buildConfig over the descriptors i..Len(cams)
RECURSIVE addPaths(_, _, _, _)
addPaths(g, paths, cams, i) ==
    IF i > Len(cams) THEN paths
    ELSE LET info == cams[i]
             name == pathNameFor(g, info)
             url == sourceURLFor(g, info)
         IN  IF name = "" \/ url = "" THEN addPaths(g, paths, cams, i + 1)
             ELSE addPaths(g,
                           [n \in DOMAIN paths \cup {name} |->
                                IF n = name THEN pathConfigFor(info, url, g.recordDeleteAfter)
                                ELSE paths[n]],
                           cams, i + 1)

\* Generator.buildConfig(existing, exists, cameras)
buildConfig(g, existing, exists, cams) ==
    LET start == IF g.central /\ exists
                 THEN [existing EXCEPT
                          !.paths = NoPaths,
                          !.users = IF g.creds THEN authUsersForAPI(g.creds) ELSE @,
                          !.defaults = IF @ = "" THEN formatDuration(g.recordDeleteAfter) ELSE @]
                 ELSE [baseConfig(g.recordDeleteAfter, g.creds) EXCEPT
                          !.users = IF exists /\ ~g.creds THEN existing.users ELSE @]
    IN  [start EXCEPT !.paths = addPaths(g, NoPaths, cams, 1)]

\* a faulty variant: every desired path is added
IsNewAlways(existing, name) == TRUE

\* applyConfigViaAPI: a desired path absent from the config read before is added, one
\* present in it replaced
IsNew(existing, name) == name \notin DOMAIN existing.paths

\* applyConfigViaAPI: the calls for the paths of the config read that the desired
\* config lacks, and those for the paths of the desired config
PatchGlobal == <<"patch", "global">>
PatchDefaults == <<"patch", "pathdefaults">>
Deletes(existing, desired) ==
    {<<"delete", n>> : n \in DOMAIN existing.paths \ DOMAIN desired.paths}
Upserts(existing, desired) ==
    {<<IF IsNew(existing, n) THEN "add" ELSE "replace", n>> : n \in DOMAIN desired.paths}

\* applyConfigViaAPI: the ways it can run. The two patches, then the deletes, then
\* the adds and replaces, each loop in the order of a map iteration; the first call
\* that fails ends it. done: the calls that succeeded; failed: the one that failed
ApiRuns(existing, desired) ==
    LET dels == Deletes(existing, desired)
        ups == Upserts(existing, desired)
    IN  {[done |-> {PatchGlobal, PatchDefaults} \cup dels \cup ups, failed |-> {}],
         [done |-> {}, failed |-> {PatchGlobal}],
         [done |-> {PatchGlobal}, failed |-> {PatchDefaults}]}
        \cup UNION {{[done |-> {PatchGlobal, PatchDefaults} \cup S, failed |-> {c}] :
                        c \in dels \ S} : S \in SUBSET dels}
        \cup UNION {{[done |-> {PatchGlobal, PatchDefaults} \cup dels \cup S, failed |-> {c}] :
                        c \in ups \ S} : S \in SUBSET ups}

\* the router's paths after the calls of done succeeded
Applied(paths, done) ==
    (paths \ {c[2] : c \in {d \in done : d[1] = "delete"}})
        \cup {c[2] : c \in {d \in done : d[1] \in {"add", "replace"}}}

\* what the last Sync did. cams: its descriptors; wrote: it rewrote the file; calls:
\* the admin API calls it made, the failed one included; signal: the reload signal
\* it sent ("none", "ok", "error"); result: the error it returned ("none" before the
\* first Sync)
NoSync ==
    [cams |-> <<>>, wrote |-> FALSE, calls |-> {}, signal |-> "none", result |-> "none"]

histvars == <<mon, last>>
genvars == <<gcfg, file, router, sync>>
extvars == <<shut, drv, srt, norm, stat, eng, inflight>>
auxvars == <<race, pipe, genvars, extvars>>
supvars == <<mtxGen, cameras, workers, pending, mtxPaths, now, lastSeen, lastValid, did,
             auxvars>>

-----------------------------------------------------------------------------
Modes == {uplinkModeContainer, uplinkModeMediaMTX}

\* CameraInfo fields StopByCamera reads, as the Supervisor passes them
StopInfos ==
    { [DeviceID |-> "cam1", ProxyPath |-> "cam1", CentralPath |-> "/acme/hq/cam1/"],
      [DeviceID |-> "Cam2", ProxyPath |-> "", CentralPath |-> ""] }

cfgvars == <<mode, alwaysOn, alwaysOnPaths, ignoreUplink>>
vars == <<mode, alwaysOn, alwaysOnPaths, ignoreUplink, uplinks, containers, live, mon, last,
          mtxGen, cameras, workers, pending, mtxPaths, now, lastSeen, lastValid, did,
          race, pipe, gcfg, file, router, sync, shut, drv, srt, norm, stat, eng, inflight>>

\* NewManagerFromEnv: IGNORE_UPLINK, UPLINK_ALWAYS_ON, UPLINK_ALWAYS_ON_PATHS. Every
\* test of the code reads ignoreUplink first, then alwaysOn, then alwaysOnPaths, so a
\* flag set together with one read before it changes nothing.
Flags(ignore, always, paths) == [ignoreUplink |-> ignore, alwaysOn |-> always, alwaysOnPaths |-> paths]
Deployments ==
    { Flags(FALSE, FALSE, {}),
      Flags(FALSE, FALSE, {normalizeAlwaysOnKey(" Cam2 ")}),
      Flags(FALSE, TRUE, {}),
      Flags(TRUE, FALSE, {}) }

\* the UplinkManager after NewManagerFromEnv, the Supervisor after New
InitManager ==
    /\ mode \in Modes
    /\ \E f \in Deployments :
            /\ ignoreUplink = f.ignoreUplink
            /\ alwaysOn = f.alwaysOn
            /\ alwaysOnPaths = f.alwaysOnPaths
    /\ uplinks = [k \in {} |-> MonInit]
    /\ containers = [n \in Names |-> "absent"]
    /\ live = [n \in Names |-> 0]
    /\ mon = MonInit
    /\ last = Event("init", "", NoReq, "nil", FALSE, <<>>, {})

\* before ctx is cancelled. cancelled: Run has seen ctx.Done() and stopAll has
\* returned; cleaned: the keys stopAll cleaned up; syncs: the calls of
\* Generator.Sync it made
NoShut == [cancelled |-> FALSE, cleaned |-> {}, syncs |-> 0]

\* a driver whose Run was just called. pc: "connect" (runOnce is about to be called),
\* "stream" (reading the next part), "send" (at the select that sends an event),
\* "backoff" (at the select that waits 5 seconds), "returned"; ctx: the context
\* handed to Run; ch: the events in the out-channel; buf: the parts still to be read
\* once the context is done; rep: the states reported through notifyStatus in the
\* current attempt; failed: an attempt has failed; blocked: the context was
\* cancelled while the driver was sending on a full channel; closes: how often the
\* out-channel was closed; sentClosed: an event was sent on the closed channel;
\* fan: the task that ranges over the channel ("ranging", "exited"); got: the events
\* it received
Driver(kind) ==
    [kind |-> kind, pc |-> "connect", ctx |-> "live", ch |-> 0, buf |-> 0, rep |-> <<>>,
     failed |-> FALSE, blocked |-> FALSE, closes |-> 0, sentClosed |-> FALSE,
     fan |-> "ranging", got |-> 0]

\* the texts of a URL: a decimal number, a plain text, and a stream id, which is
\* `name` behind `pub` prefixes "publish:" (a path is a stream id too)
Num(n) == [t |-> "num", n |-> n, pub |-> 0, s |-> ""]
Str(s) == [t |-> "str", n |-> 0, pub |-> 0, s |-> s]
StreamID(pub, name) == [t |-> "id", n |-> 0, pub |-> pub, s |-> name]

\* UPLINK_SRT_EXTRA_PARAMS as url.ParseQuery reads it: the pairs in the order of the
\* text, or a text that does not parse
ExtraParams(ok, pairs) == [ok |-> ok, pairs |-> pairs]
NoExtraParams == ExtraParams(TRUE, <<>>)

SRTQueryOptions(latency, peer, drop, extra) ==
    [Latency |-> latency, PacketSize |-> 0, MaxBW |-> 0, RcvBuf |-> 0, Passphrase |-> "",
     PBKeyLen |-> 0, PeerLatency |-> peer, RcvLatency |-> 0, ConnTimeout |-> 0, SndBuf |-> 0,
     InputBW |-> 0, OheadBW |-> 0, TLPktDrop |-> drop, ExtraParams |-> extra]

\* the arguments of BuildSRTURLCandidates (a host is a name and the port written
\* behind it, 0 for none), the UPLINK_SRT_* variables, and the list returned
SrtCall(host, port, path, profile, compat, env) ==
    [host |-> host, port |-> port, path |-> path, profile |-> profile, compat |-> compat,
     env |-> env, built |-> FALSE, urls |-> <<>>]
NoSrt ==
    SrtCall([name |-> "", port |-> 0], 0, StreamID(0, ""), "", FALSE,
            SRTQueryOptions(0, 0, FALSE, NoExtraParams))

\* the levels of an info topic behind the base topic (a level may be empty)
InfoTopic(tenant, building, floor, dev) ==
    [Tenant |-> tenant, Building |-> building, Floor |-> floor, DeviceType |-> "ipcam",
     DeviceID |-> dev]

\* core.CameraInfo as far as handleInfoMessage normalises it. A path is the sequence
\* of the parts that its separator joins, <<>> for the empty text
CameraInfo(id, proxy, central, rec, minutes, preRoll, enabled) ==
    [Tenant |-> id.Tenant, Building |-> id.Building, Floor |-> id.Floor,
     DeviceType |-> id.DeviceType, DeviceID |-> id.DeviceID,
     ProxyPath |-> proxy, CentralPath |-> central, RecordEnabled |-> rec,
     RecordRetentionMinutes |-> minutes, PreRollSeconds |-> preRoll, Enabled |-> enabled]
NoInfo == CameraInfo(InfoTopic("", "", "", ""), <<>>, <<>>, FALSE, 0, 0, FALSE)

\* a message (the topic, the CameraInfo that json.Unmarshal gives for the payload),
\* whether it was handled, and the descriptor stored for it
NoNorm == [topic |-> InfoTopic("", "", "", ""), payload |-> NoInfo, handled |-> FALSE,
           stored |-> FALSE, info |-> NoInfo]

\* the status loop and the drivers of the workers. tick: flips at every call of
\* publishStatuses; cams: the camera status messages of the last call (key, status,
\* reason); buildings: the buildings whose collector status it published; trying:
\* the workers whose driver is in a connection attempt; failing: the workers whose
\* driver has made attempts, all of which failed; env: the value of
\* CAMBUS_STATUS_INTERVAL_SECONDS; interval: Supervisor.statusInterval, in seconds;
\* loop: Run has started runStatusLoop
defaultStatusInterval == 30

\* the text of an environment variable: unset or empty (set = FALSE), a decimal
\* number (num = TRUE, its value sec), or another text
EnvText(set, num, sec) == [set |-> set, num |-> num, sec |-> sec]
EnvUnset == EnvText(FALSE, FALSE, 0)

envDurationSeconds(v, def) ==
    IF ~v.set THEN def
    ELSE IF ~v.num \/ v.sec <= 0 THEN def
    ELSE v.sec

\* Run: `if s.statusInterval > 0 { go s.runStatusLoop(ctx) }`
startsStatusLoop(interval) == interval > 0

\* the Supervisor that New returns for the value v of the variable, once Run has
\* subscribed
StatusLoop(v) ==
    [tick |-> FALSE, cams |-> {}, buildings |-> {}, trying |-> {}, failing |-> {},
     env |-> v,
     interval |-> envDurationSeconds(v, defaultStatusInterval),
     loop |-> startsStatusLoop(envDurationSeconds(v, defaultStatusInterval))]
NoStat == StatusLoop(EnvUnset)

\* an Engine: what Enabled() answers, how Process ends ("ok", "error", "panic") and
\* how many derived events it returns
Engine(enabled, result, n) == [enabled |-> enabled, result |-> result, n |-> n]

\* a call of ProcessAll. engines: the engines of the Manager; evt: the id of the
\* event; i: the engine the loop is at; out: the derived events collected; calls:
\* the calls of Process made (engine, event); panicked: a panic left ProcessAll
ProcessCall(engines, evt) ==
    [engines |-> engines, evt |-> evt, i |-> 1, out |-> <<>>, calls |-> <<>>,
     panicked |-> FALSE]
NoEngines == ProcessCall(<<>>, 1)

\* the tasks of the Manager that are under way. ttl: the callbacks of fired timers
\* that have not run stopUplink yet, each with the key of its process and whether
\* another process was registered under that key since (stale); pass, todo, cur,
\* state: the reconcile pass, the snapshots it has still to inspect, the snapshot it
\* inspected last and the state the inspect returned; late: another process was
\* registered under the key of cur since the inspect; held: per mutex the task that
\* holds it ("": free); at: per task the script it runs and its position in it;
\* snaps: the camera sets of the refresh tasks that are between snapshotCameraInfos
\* and Generator.Sync
NoSnap == [key |-> "", container |-> ""]
Mutexes == {"Supervisor.mu", "Manager.mu", "Generator.mu"}
Tasks == {"info", "control", "status", "reconcile", "timer", "refresh"}
Idle == [script |-> "idle", pc |-> 0]
NoFlight ==
    [ttl |-> {}, pass |-> FALSE, todo |-> {}, cur |-> NoSnap, state |-> "", late |-> FALSE,
     held |-> [m \in Mutexes |-> ""], at |-> [t \in Tasks |-> Idle], snaps |-> {}]

InitTables ==
    /\ cameras = [k \in {} |-> NoPayload]
    /\ workers = [k \in {} |-> NoPayload]
    /\ pending = 0
    /\ mtxPaths = {}
    /\ now = 1
    /\ lastSeen = [k \in SupKeys |-> NoPayload]
    /\ lastValid = [k \in SupKeys |-> NoPayload]
    /\ did = Quiet("init")

InitSupervisor ==
    /\ InitTables
    /\ race = RaceIdle
    /\ pipe = PipeNone
    /\ gcfg = Generator(FALSE, FALSE, "pid", maxRecordDeleteAfter)
    /\ file = AbsentFile
    /\ router = {}
    /\ sync = NoSync
    /\ shut = NoShut
    /\ drv = Driver("dahua")
    /\ srt = NoSrt
    /\ norm = NoNorm
    /\ stat = NoStat
    /\ eng = NoEngines /\ inflight = NoFlight

\* the commands of the uplink topics are followed with a media config generator
Init == InitManager /\ InitSupervisor /\ mtxGen = TRUE

\* Spec: every operation records what it did in `last`
Records(ev) == last' = ev /\ UNCHANGED <<cfgvars, mon, supvars>>

UplinkStart(req) ==
    /\ StartInRange(req)
    /\ \E outcome \in StartOutcomes(req), stopOk \in StartStopOks(req) :
            StartStep(req, outcome, stopOk) /\ Records(StartEv(req, outcome, stopOk))
UplinkStop(req) ==
    \E stopOk \in StopOks(req) : StopStep(req, stopOk) /\ Records(StopEv(req, stopOk))
UplinkTTL(key) ==
    /\ TTLEnabled(key)
    /\ \E stopOk \in TTLOks(key) : TTLStep(key, stopOk) /\ Records(TTLEv(key, stopOk))
UplinkStopByCamera(info) ==
    \E oks \in StopSetOks(StopByCameraSet(info)) :
        StopByCameraStep(info, oks) /\ Records(StopByCameraEv(info, oks))
UplinkStopAll ==
    \E oks \in StopSetOks(StopAllSet) : StopAllStep(oks) /\ Records(StopAllEv(oks))
UplinkReconcile ==
    /\ ReconcilerRuns
    /\ \E failed \in InspectFailures :
          \E oks \in StopSetOks(Reaped(failed)) :
            ReconcileStep(failed, oks) /\ Records(ReconcileEv(failed, oks))
UplinkExit(name) == ContainerExits(name) /\ Records(ExitEv)

Next ==
    \/ \E req \in Requests : UplinkStart(req)
    \/ \E req \in Requests : UplinkStop(req)
    \/ \E key \in Keys : UplinkTTL(key)
    \/ \E info \in StopInfos : UplinkStopByCamera(info)
    \/ UplinkStopAll
    \/ UplinkReconcile
    \/ \E name \in Names : UplinkExit(name)

Spec == Init /\ [][Next]_vars

\* SpecCount: every operation is counted in the history `mon` of its key
Counts(ev) == mon' = MonStep(ev) /\ UNCHANGED <<cfgvars, last, supvars>>

CountStart(req) ==
    /\ StartInRange(req)
    /\ \E outcome \in StartOutcomes(req), stopOk \in StartStopOks(req) :
            StartStep(req, outcome, stopOk) /\ Counts(StartEv(req, outcome, stopOk))
CountStop(req) ==
    \E stopOk \in StopOks(req) : StopStep(req, stopOk) /\ Counts(StopEv(req, stopOk))
CountTTL(key) ==
    /\ TTLEnabled(key)
    /\ \E stopOk \in TTLOks(key) : TTLStep(key, stopOk) /\ Counts(TTLEv(key, stopOk))
CountStopByCamera(info) ==
    \E oks \in StopSetOks(StopByCameraSet(info)) :
        StopByCameraStep(info, oks) /\ Counts(StopByCameraEv(info, oks))
CountStopAll ==
    \E oks \in StopSetOks(StopAllSet) : StopAllStep(oks) /\ Counts(StopAllEv(oks))
CountReconcile ==
    /\ ReconcilerRuns
    /\ \E failed \in InspectFailures :
          \E oks \in StopSetOks(Reaped(failed)) :
            ReconcileStep(failed, oks) /\ Counts(ReconcileEv(failed, oks))
CountExit(name) == ContainerExits(name) /\ Counts(ExitEv)

NextCount ==
    \/ \E req \in Requests : CountStart(req)
    \/ \E req \in Requests : CountStop(req)
    \/ \E key \in Keys : CountTTL(key)
    \/ \E info \in StopInfos : CountStopByCamera(info)
    \/ CountStopAll
    \/ CountReconcile
    \/ \E name \in Names : CountExit(name)

SpecCount == Init /\ [][NextCount]_vars

-----------------------------------------------------------------------------
(* SpecSup: the messages of the info topics, handled one at a time *)

\* cleanupCamera(info): stopCamera, removeCameraInfo, uplink.StopByCamera, and
\* refreshMediaMTXConfig in the handler
cleanupCamera(info, kind, repeat, oks, syncOk) ==
    LET key == supervisorKeyFor(info)
    IN  /\ workers' = stopCamera(workers, key)
        /\ cameras' = removeCameraInfo(cameras, key)
        /\ StopByCameraStep(info, oks)
        /\ mtxPaths' = refreshMediaMTXConfig(removeCameraInfo(cameras, key), syncOk)
        /\ did' = Did("info", key, kind, repeat, stopCameraCancels(workers, key), FALSE,
                      "StopByCamera", IF mtxGen THEN "sync" ELSE "none")
        /\ UNCHANGED pending

\* startOrUpdateCamera(info): the refresh tasks it spawns
RefreshTasks(info) ==
    LET key == supervisorKeyFor(info)
        has == key \in DOMAIN workers
    IN  IF ~mtxGen THEN 0
        ELSE IF has /\ cameraInfoEqual(workers[key].info, info) THEN 0
        ELSE IF GetDriver(info) THEN 1
        ELSE IF has THEN 2 ELSE 1

\* startOrUpdateCamera(info); call: the call the handler made to the UplinkManager
startOrUpdateCamera(info, repeat, call) ==
    LET key == supervisorKeyFor(info)
        has == key \in DOMAIN workers
        refresh == IF RefreshTasks(info) > 0 THEN "async" ELSE "none"
    IN  /\ mtxPaths' = mtxPaths
        /\ pending' = pending + RefreshTasks(info)
        /\ IF has /\ cameraInfoEqual(workers[key].info, info)
           THEN /\ workers' = workers
                /\ did' = Did("info", key, "enabled", repeat, {}, FALSE, call, refresh)
           ELSE IF GetDriver(info)
           THEN /\ workers' = [k \in DOMAIN workers \cup {key} |->
                                    IF k = key THEN NewWorker(info) ELSE workers[k]]
                /\ did' = Did("info", key, "enabled", repeat, stopCameraCancels(workers, key),
                              TRUE, call, refresh)
           ELSE /\ workers' = stopCamera(workers, key)
                /\ did' = Did("info", key, "enabled", repeat, stopCameraCancels(workers, key),
                              FALSE, call, refresh)

\* the counters of the model stay in range
InfoInRange(info) ==
    /\ pending + RefreshTasks(info) <= MaxPending
    /\ info.CentralHost # "" => StartInRange(UplinkRequest(info))

\* handleInfoMessage for an enabled descriptor: upsertCameraInfo, uplink.Start for a
\* central_host and uplink.StopByCamera without, startOrUpdateCamera
EnabledInfo(info, repeat) ==
    /\ InfoInRange(info)
    /\ cameras' = upsertCameraInfo(cameras, supervisorKeyFor(info), info)
    /\ IF info.CentralHost # ""
       THEN /\ \E outcome \in StartOutcomes(UplinkRequest(info)),
                  stopOk \in StartStopOks(UplinkRequest(info)) :
                    StartStep(UplinkRequest(info), outcome, stopOk)
            /\ startOrUpdateCamera(info, repeat, "Start")
       ELSE /\ \E oks \in StopSetOks(StopByCameraSet(info)) : StopByCameraStep(info, oks)
            /\ startOrUpdateCamera(info, repeat, "StopByCamera")

\* Supervisor.handleInfoMessage(topic, payload)
handleInfoMessage(topic, p) ==
    LET key == supervisorKeyFor(topic)
        repeat == lastSeen[key] = p
    IN  /\ lastSeen' = [lastSeen EXCEPT ![key] = p]
        /\ lastValid' = IF p.kind = "invalid" THEN lastValid ELSE [lastValid EXCEPT ![key] = p]
        /\ UNCHANGED <<cfgvars, histvars, mtxGen, now>>
        /\ IF IsTombstone(p)
           THEN \E oks \in StopSetOks(StopByCameraSet(TombstoneInfo(topic))), syncOk \in BOOLEAN :
                    cleanupCamera(TombstoneInfo(topic), "tombstone", repeat, oks, syncOk)
           ELSE IF p.kind = "invalid"
           THEN /\ did' = Did("info", key, "invalid", repeat, {}, FALSE, "none", "none")
                /\ UNCHANGED <<uplinks, containers, live, cameras, workers, pending, mtxPaths>>
           ELSE IF ~DecodedInfo(topic, p).Enabled
           THEN \E oks \in StopSetOks(StopByCameraSet(DecodedInfo(topic, p))), syncOk \in BOOLEAN :
                    cleanupCamera(DecodedInfo(topic, p), "disabled", repeat, oks, syncOk)
           ELSE EnabledInfo(DecodedInfo(topic, p), repeat)

\* a message of an info topic, the tasks of the workers left to themselves
HandleInfo(topic, p) == handleInfoMessage(topic, p) /\ UNCHANGED auxvars

\* the other steps leave the UplinkManager and the histories alone
QuietFrame(op) ==
    /\ did' = Quiet(op)
    /\ UNCHANGED <<cfgvars, histvars, uplinks, containers, live, mtxGen, cameras,
                   lastSeen, lastValid>>
SupQuiet(op) == QuietFrame(op) /\ UNCHANGED auxvars

\* Supervisor.touchWorker(key) and Supervisor.updateWorkerStatus(key, update) on the
\* workers table
touchWorker(ws, key) ==
    IF key \notin DOMAIN ws THEN ws
    ELSE [ws EXCEPT ![key] =
            [@ EXCEPT !.lastEventAt = now,
                      !.status = "online",
                      !.statusSince = IF ws[key].status # "online" THEN now ELSE @,
                      !.statusReason = IF ws[key].status # "online" THEN "" ELSE @,
                      !.everConnected = TRUE]]
\* a faulty variant: a report of online does not set everConnected
updateWorkerStatusOnly(ws, key, update) ==
    IF key \notin DOMAIN ws THEN ws
    ELSE [ws EXCEPT ![key] =
            [@ EXCEPT !.status = update.State,
                      !.statusReason = update.Reason,
                      !.statusSince = now]]
updateWorkerStatus(ws, key, update) ==
    IF key \notin DOMAIN ws THEN ws
    ELSE [ws EXCEPT ![key] =
            [@ EXCEPT !.status = update.State,
                      !.statusReason = update.Reason,
                      !.statusSince = now,
                      !.everConnected = IF update.State = "online" THEN TRUE ELSE @]]

\* Supervisor.touchWorker(key): an event of the camera arrived
TouchWorker(key) ==
    /\ key \in DOMAIN workers
    /\ workers' = touchWorker(workers, key)
    /\ UNCHANGED <<pending, mtxPaths, now>>
    /\ SupQuiet("touch")

\* the status updates a driver and the event publisher report
StatusUpdates ==
    { [State |-> "online", Reason |-> ""],
      [State |-> "offline", Reason |-> "event stream encerrado"] }

\* Supervisor.updateWorkerStatus(key, update)
UpdateWorkerStatus(key, update) ==
    /\ key \in DOMAIN workers
    /\ workers' = updateWorkerStatus(workers, key, update)
    /\ UNCHANGED <<pending, mtxPaths, now>>
    /\ SupQuiet("status")

\* a task spawned by `go s.refreshMediaMTXConfig()` runs
AsyncRefresh ==
    /\ pending > 0
    /\ pending' = pending - 1
    /\ \E syncOk \in BOOLEAN : mtxPaths' = refreshMediaMTXConfig(cameras, syncOk)
    /\ UNCHANGED <<workers, now>>
    /\ SupQuiet("refresh")

\* time passes
Tick ==
    /\ now < MaxNow
    /\ now' = now + 1
    /\ UNCHANGED <<workers, pending, mtxPaths>>
    /\ SupQuiet("tick")

\* SpecSup: the descriptors of two cameras
NextSup ==
    \/ \E topic \in Topics : \E p \in PayloadsFor(topic) : HandleInfo(topic, p)
    \/ AsyncRefresh

\* the descriptors are followed with and without a media config generator, under
\* the default flags of the UplinkManager
InitSup ==
    /\ InitManager /\ InitSupervisor
    /\ ~ignoreUplink /\ ~alwaysOn /\ alwaysOnPaths = {}
    /\ mtxGen \in BOOLEAN

SpecSup == InitSup /\ [][NextSup]_vars

\* SpecWorker: the descriptors of one camera, and what its worker reports
WatchedTopic == Topic("cam1")

NextWorker ==
    \/ \E p \in PayloadsFor(WatchedTopic) : HandleInfo(WatchedTopic, p)
    \/ TouchWorker(supervisorKeyFor(WatchedTopic))
    \/ \E update \in StatusUpdates : UpdateWorkerStatus(supervisorKeyFor(WatchedTopic), update)
    \/ AsyncRefresh
    \/ Tick

SpecWorker == InitSup /\ [][NextWorker]_vars

-----------------------------------------------------------------------------
(* SpecRace: two messages of one info topic handled on two transport threads. A  *)
(* step is one critical section of a handler: the Supervisor's mutex is taken    *)
(* by stopCamera, removeCameraInfo, upsertCameraInfo, snapshotCameraInfos and    *)
(* startOrUpdateCamera, the UplinkManager's by startUplink and StopByCamera.     *)

\* the payloads of the two calls: tombstones, a disabled descriptor and enabled
\* descriptors that differ in a field cameraInfoEqual compares (a payload that is not
\* JSON returns at once)
RacePayloads ==
    {p \in PayloadsFor(WatchedTopic) :
        /\ p.kind # "invalid"
        /\ p # Payload("json", "Hikvision", "10.0.0.10", TRUE, "")}

RaceKey == supervisorKeyFor(WatchedTopic)
RaceInfo(p) == IF IsTombstone(p) THEN TombstoneInfo(WatchedTopic) ELSE DecodedInfo(WatchedTopic, p)
\* the payload goes to cleanupCamera
Cleans(p) == IsTombstone(p) \/ ~RaceInfo(p).Enabled

\* the workers table startOrUpdateCamera(info) leaves
startOrUpdateWorkers(ws, info) ==
    LET key == supervisorKeyFor(info)
    IN  IF key \in DOMAIN ws /\ cameraInfoEqual(ws[key].info, info) THEN ws
        ELSE IF GetDriver(info)
        THEN [k \in DOMAIN ws \cup {key} |-> IF k = key THEN NewWorker(info) ELSE ws[k]]
        ELSE stopCamera(ws, key)

\* the cameras and workers tables handleInfoMessage leaves when it runs alone
HandledAlone(tables, p) ==
    IF Cleans(p)
    THEN <<removeCameraInfo(tables[1], RaceKey), stopCamera(tables[2], RaceKey)>>
    ELSE <<upsertCameraInfo(tables[1], RaceKey, RaceInfo(p)),
           startOrUpdateWorkers(tables[2], RaceInfo(p))>>

\* call i moves to its next critical section, or returns
Advance(i, last_pc) ==
    LET pc == IF race.th[i].pc = last_pc THEN 0 ELSE race.th[i].pc + 1
        th == [race.th EXCEPT ![i].pc = pc]
    IN  race' = [race EXCEPT !.th = th,
                             !.phase = IF th[1].pc = 0 /\ th[2].pc = 0 THEN "done" ELSE "running"]

At(i, pc, cleans) ==
    /\ race.phase = "running"
    /\ race.th[i].pc = pc
    /\ Cleans(race.th[i].msg) = cleans

RaceFrame ==
    /\ UNCHANGED <<cfgvars, histvars, mtxGen, now, lastSeen, lastValid, pipe, genvars, extvars>>
    /\ did' = Quiet("race")

\* two messages arrive
RaceBegin(p1, p2) ==
    /\ race.phase # "running"
    /\ race' = [phase |-> "running", base |-> <<cameras, workers>>,
                th |-> <<Thread(1, p1), Thread(1, p2)>>]
    /\ UNCHANGED <<uplinks, containers, live, cameras, workers, pending, mtxPaths>>
    /\ RaceFrame

\* cleanupCamera, first section: stopCamera
RaceStopCamera(i) ==
    /\ At(i, 1, TRUE)
    /\ workers' = stopCamera(workers, RaceKey)
    /\ UNCHANGED <<uplinks, containers, live, cameras, pending, mtxPaths>>
    /\ Advance(i, 4) /\ RaceFrame

\* cleanupCamera, second section: removeCameraInfo
RaceRemoveInfo(i) ==
    /\ At(i, 2, TRUE)
    /\ cameras' = removeCameraInfo(cameras, RaceKey)
    /\ UNCHANGED <<uplinks, containers, live, workers, pending, mtxPaths>>
    /\ Advance(i, 4) /\ RaceFrame

\* cleanupCamera, third section: uplink.StopByCamera
RaceCleanupUplink(i) ==
    /\ At(i, 3, TRUE)
    /\ \E oks \in StopSetOks(StopByCameraSet(RaceInfo(race.th[i].msg))) :
            StopByCameraStep(RaceInfo(race.th[i].msg), oks)
    /\ UNCHANGED <<cameras, workers, pending, mtxPaths>>
    /\ Advance(i, 4) /\ RaceFrame

\* cleanupCamera, fourth section: refreshMediaMTXConfig (snapshotCameraInfos, Sync)
RaceRefresh(i) ==
    /\ At(i, 4, TRUE)
    /\ \E syncOk \in BOOLEAN : mtxPaths' = refreshMediaMTXConfig(cameras, syncOk)
    /\ UNCHANGED <<uplinks, containers, live, cameras, workers, pending>>
    /\ Advance(i, 4) /\ RaceFrame

\* an enabled descriptor, first section: upsertCameraInfo
RaceUpsert(i) ==
    /\ At(i, 1, FALSE)
    /\ cameras' = upsertCameraInfo(cameras, RaceKey, RaceInfo(race.th[i].msg))
    /\ UNCHANGED <<uplinks, containers, live, workers, pending, mtxPaths>>
    /\ Advance(i, 3) /\ RaceFrame

\* an enabled descriptor, second section: uplink.Start or uplink.StopByCamera
RaceUplink(i) ==
    LET info == RaceInfo(race.th[i].msg)
    IN  /\ At(i, 2, FALSE)
        /\ IF info.CentralHost # ""
           THEN /\ StartInRange(UplinkRequest(info))
                /\ \E outcome \in StartOutcomes(UplinkRequest(info)),
                      stopOk \in StartStopOks(UplinkRequest(info)) :
                        StartStep(UplinkRequest(info), outcome, stopOk)
           ELSE \E oks \in StopSetOks(StopByCameraSet(info)) : StopByCameraStep(info, oks)
        /\ UNCHANGED <<cameras, workers, pending, mtxPaths>>
        /\ Advance(i, 3) /\ RaceFrame

\* an enabled descriptor, third section: startOrUpdateCamera
RaceStartOrUpdate(i) ==
    LET info == RaceInfo(race.th[i].msg)
    IN  /\ At(i, 3, FALSE)
        /\ pending + RefreshTasks(info) <= MaxPending
        /\ workers' = startOrUpdateWorkers(workers, info)
        /\ pending' = pending + RefreshTasks(info)
        /\ UNCHANGED <<uplinks, containers, live, cameras, mtxPaths>>
        /\ Advance(i, 3) /\ RaceFrame

Threads == {1, 2}

NextRace ==
    \/ \E p1, p2 \in RacePayloads : RaceBegin(p1, p2)
    \/ \E i \in Threads : RaceStopCamera(i)
    \/ \E i \in Threads : RaceRemoveInfo(i)
    \/ \E i \in Threads : RaceCleanupUplink(i)
    \/ \E i \in Threads : RaceRefresh(i)
    \/ \E i \in Threads : RaceUpsert(i)
    \/ \E i \in Threads : RaceUplink(i)
    \/ \E i \in Threads : RaceStartOrUpdate(i)
    \/ AsyncRefresh

SpecRace == InitSup /\ [][NextRace]_vars

-----------------------------------------------------------------------------
(* SpecPipe: the worker of one camera. startOrUpdateCamera starts a driver task  *)
(* (drv.Run, then cancel() and close(eventsCh)) and a publisher task (for evt :=  *)
(* range eventsCh: touchWorker, publish the event, ProcessAll, publish the        *)
(* derived events).                                                                *)

\* the capacity of eventsCh (64 in the code): the driver never waits for the publisher
ChanCap == MaxEvents

\* the descriptors of the camera: one enabled descriptor and the tombstone
PipePayloads == {Payload("json", "Hikvision", "10.0.0.10", TRUE, ""), EmptyPayload}

\* a faulty variant: the publisher takes the newest event of the channel
ReceiveLast(ch) == Len(ch)

\* `range eventsCh` receives the oldest event of the channel
Receive(ch) == 1

Without(ch, i) == [k \in 1..(Len(ch) - 1) |-> IF k < i THEN ch[k] ELSE ch[k + 1]]

\* a faulty variant: the event is published as it is
stripNothing(evt) == evt

\* evtOut := evt; evtOut.SnapshotB64 = ""
strip(evt) == [evt EXCEPT !.SnapshotB64 = ""]

\* json.Marshal of an AnalyticEvent: SnapshotB64 is `omitempty`, RawSnapshot is `-`
Marshal(evt) ==
    [id |-> evt.id, kind |-> evt.kind, n |-> evt.n,
     fields |-> IF evt.SnapshotB64 # "" THEN {"SnapshotB64"} ELSE {}]

\* json.Marshal and mqtt.Publish: the payload reaches the bus, or an error is logged
PublishOutcomes == {"ok", "error"}
Publish(pub, evt, outcome) == IF outcome = "ok" THEN Append(pub, Marshal(strip(evt))) ELSE pub

PipeFrame == QuietFrame("pipe") /\ UNCHANGED <<race, genvars, extvars, pending, mtxPaths, now>>

\* a message of the info topic: a started worker gets its context, its channel and
\* its two tasks, a cancelled one has its context cancelled (a worker is started here
\* once the tasks of the previous one have ended)
PipeInfo(p) ==
    /\ handleInfoMessage(WatchedTopic, p)
    /\ did'.started => pipe.phase # "running"
    /\ pipe' = IF did'.started
               THEN [PipeNone EXCEPT !.phase = "running", !.driver = "running"]
               ELSE [pipe EXCEPT
                        !.ctx = IF did'.cancelled # {} THEN "cancelled" ELSE @,
                        !.stopped = @ \/ did'.kind \in {"tombstone", "disabled"}]
    /\ UNCHANGED <<race, genvars, extvars>>

\* drv.Run sends an event (its select takes the send also when ctx is done)
DriverEmit(shape) ==
    /\ pipe.phase = "running" /\ pipe.driver = "running"
    /\ pipe.next <= MaxEvents
    /\ Len(pipe.ch) < ChanCap
    /\ pipe' = [pipe EXCEPT !.ch = Append(@, AnalyticEvent(pipe.next, "orig", 0, shape)),
                            !.next = @ + 1]
    /\ UNCHANGED workers
    /\ PipeFrame

\* drv.Run returns (ctx done, stream error): cancel(), close(eventsCh)
DriverReturn ==
    /\ pipe.phase = "running" /\ pipe.driver = "running"
    /\ pipe' = [pipe EXCEPT !.driver = "returned", !.ctx = "cancelled"]
    /\ UNCHANGED workers
    /\ PipeFrame

\* the publisher receives an event: touchWorker, publish
PublisherTake(outcome) ==
    /\ pipe.phase = "running" /\ pipe.step = "idle"
    /\ pipe.ch # <<>>
    /\ LET evt == pipe.ch[Receive(pipe.ch)]
       IN  pipe' = [pipe EXCEPT !.step = "took",
                                !.cur = evt,
                                !.todo = <<>>,
                                !.done = 0,
                                !.ch = Without(@, Receive(pipe.ch)),
                                !.pub = Publish(@, evt, outcome)]
    /\ workers' = touchWorker(workers, supervisorKeyFor(WatchedTopic))
    /\ PipeFrame

\* engines.ProcessAll(ctx, evt) returns n derived events
PublisherProcess(n, shape) ==
    /\ pipe.phase = "running" /\ pipe.step = "took"
    /\ pipe' = [pipe EXCEPT
                    !.step = IF n = 0 THEN "idle" ELSE "derived",
                    !.todo = [k \in 1..n |-> AnalyticEvent(pipe.cur.id, "derived", k, shape)]]
    /\ UNCHANGED workers
    /\ PipeFrame

\* the publisher publishes the next derived event
PublishDerived(outcome) ==
    /\ pipe.phase = "running" /\ pipe.step = "derived"
    /\ pipe' = [pipe EXCEPT !.pub = Publish(@, pipe.todo[pipe.done + 1], outcome),
                            !.done = @ + 1,
                            !.step = IF pipe.done + 1 = Len(pipe.todo) THEN "idle" ELSE @]
    /\ UNCHANGED workers
    /\ PipeFrame

\* eventsCh is closed and empty: the publisher reports offline and ends
PublisherExit ==
    /\ pipe.phase = "running" /\ pipe.step = "idle"
    /\ pipe.ch = <<>> /\ pipe.driver = "returned"
    /\ pipe' = [pipe EXCEPT !.phase = "ended"]
    /\ workers' = updateWorkerStatus(workers, supervisorKeyFor(WatchedTopic),
                                     [State |-> "offline", Reason |-> "event stream encerrado"])
    /\ PipeFrame

NextPipe ==
    \/ \E p \in PipePayloads : PipeInfo(p)
    \/ \E shape \in Shapes : DriverEmit(shape)
    \/ DriverReturn
    \/ \E outcome \in PublishOutcomes : PublisherTake(outcome)
    \/ \E n \in 0..MaxDerived : \E shape \in Shapes : PublisherProcess(n, shape)
    \/ \E outcome \in PublishOutcomes : PublishDerived(outcome)
    \/ PublisherExit

\* the worker is followed in a deployment without a media config generator
InitPipe == InitSup /\ mode = uplinkModeContainer /\ ~mtxGen

SpecPipe == InitPipe /\ [][NextPipe]_vars

-----------------------------------------------------------------------------
(* SpecGen: Generator.Sync called again and again with the stored descriptors *)

GenFrame ==
    /\ UNCHANGED <<cfgvars, histvars, uplinks, containers, live, mtxGen, cameras, workers,
                   pending, mtxPaths, now, lastSeen, lastValid, did, race, pipe, gcfg,
                   extvars>>

Synced(cams, wrote, calls, signal, result) ==
    [cams |-> cams, wrote |-> wrote, calls |-> calls, signal |-> signal, result |-> result]

\* os.ReadFile of a file that exists: its bytes, or an error other than ErrNotExist
ReadOutcomes == {"ok", "error"}
\* os.WriteFile: done, failed before the file was touched, failed after truncating it
WriteOutcomes == {"ok", "error", "truncated"}

\* Generator.Sync(cameras): readExistingConfig, buildConfig, nothing more when the
\* file holds the config built; else marshalConfig, writeFile and applyChanges
Sync(cams) ==
    LET read == readExistingConfig(file)
        cfg == buildConfig(gcfg, read.cfg, read.exists, cams)
    IN  /\ GenFrame
        /\ \E rd \in ReadOutcomes :
             IF rd # "ok" /\ file.state # "absent"
             THEN /\ UNCHANGED <<file, router>>
                  /\ sync' = Synced(cams, FALSE, {}, "none", "read error")
             ELSE IF read.exists /\ read.cfg = cfg
             THEN /\ UNCHANGED <<file, router>>
                  /\ sync' = Synced(cams, FALSE, {}, "none", "nil")
             ELSE \E wr \in WriteOutcomes :
                    IF wr # "ok"
                    THEN /\ file' = IF wr = "truncated" THEN InvalidFile ELSE file
                         /\ UNCHANGED router
                         /\ sync' = Synced(cams, FALSE, {}, "none", "write error")
                    ELSE /\ file' = File("yaml", marshalConfig(cfg))
                         /\ IF gcfg.apply = "api"
                            THEN \E run \in ApiRuns(read.cfg, cfg) :
                                   /\ router' = Applied(router, run.done)
                                   /\ sync' = Synced(cams, TRUE, run.done \cup run.failed,
                                                     "none",
                                                     IF run.failed = {} THEN "nil"
                                                     ELSE "apply error")
                            ELSE \E ok \in BOOLEAN :
                                   /\ router' = IF ok THEN DOMAIN cfg.paths ELSE router
                                   /\ sync' = Synced(cams, TRUE, {},
                                                     IF ok THEN "ok" ELSE "error",
                                                     IF ok THEN "nil" ELSE "apply error")

NextGen == \E cams \in CameraLists : Sync(cams)

\* the generators of the proxy and of the central router, with and without API
\* credentials, applying through the admin API or by signal; the config file is
\* missing, unreadable as YAML or written by another tool, and the router runs with
\* the paths of the file
InitGen ==
    /\ InitManager /\ mode = uplinkModeContainer
    /\ ~ignoreUplink /\ ~alwaysOn /\ alwaysOnPaths = {}
    /\ mtxGen = TRUE
    /\ InitTables /\ race = RaceIdle /\ pipe = PipeNone
    /\ \E central, creds \in BOOLEAN, apply \in {"api", "pid"}, env \in RetentionEnvs :
            gcfg = Generator(central, creds, apply, retentionFromEnv(env))
    /\ file \in Files
    /\ router = DOMAIN readExistingConfig(file).cfg.paths
    /\ sync = NoSync
    /\ shut = NoShut
    /\ drv = Driver("dahua")
    /\ srt = NoSrt
    /\ norm = NoNorm
    /\ stat = NoStat
    /\ eng = NoEngines /\ inflight = NoFlight

SpecGen == InitGen /\ [][NextGen]_vars

\* SpecApi: the generators that apply through the admin API, with the ceiling of
\* maxRecordDeleteAfter; the config file is missing or written by another tool
InitApi ==
    /\ InitGen
    /\ gcfg.apply = "api"
    /\ gcfg.recordDeleteAfter = maxRecordDeleteAfter
    /\ file # InvalidFile

SpecApi == InitApi /\ [][NextGen]_vars

-----------------------------------------------------------------------------
(* SpecShut: descriptors and uplink commands arrive, then the context of      *)
(* Supervisor.Run is cancelled                                                *)

\* Request.Normalize, and the central path handleUplinkMessage gives a start command
\* that has none
ControlRequest(topic, action, req) ==
    LET r == [req EXCEPT !.CameraID = TrimPath(@), !.ProxyPath = TrimPath(@),
                         !.CentralHost = TrimPath(@), !.CentralPath = TrimPath(@)]
    IN  IF action = "start" /\ r.CentralPath = ""
        THEN [r EXCEPT !.CentralPath = IF r.ProxyPath # "" THEN TrimPath(r.ProxyPath)
                                       ELSE CentralPathFor(topic)]
        ELSE r

ShutFrame(op) ==
    /\ did' = Quiet(op)
    /\ UNCHANGED <<cfgvars, histvars, mtxGen, now, lastSeen, lastValid, race, pipe, genvars,
                   drv, srt, norm, stat, eng, inflight>>

\* Supervisor.handleUplinkMessage(topic, payload) for the actions start and stop
handleUplinkMessage(topic, action, req) ==
    LET r == ControlRequest(topic, action, req)
    IN  /\ ShutFrame("uplink")
        /\ UNCHANGED <<cameras, workers, pending, mtxPaths, shut>>
        /\ IF r.CameraID = ""
           THEN UNCHANGED <<uplinks, containers, live>>
           ELSE IF action = "start"
           THEN /\ StartInRange(r)
                /\ \E outcome \in StartOutcomes(r), stopOk \in StartStopOks(r) :
                        StartStep(r, outcome, stopOk)
           ELSE \E stopOk \in StopOks(r) : StopStep(r, stopOk)

\* stopAll: the descriptor of every key of the two tables, the worker's for a key
\* that has a worker
infosByKey ==
    [k \in DOMAIN cameras \cup DOMAIN workers |->
        IF k \in DOMAIN workers THEN workers[k].info ELSE cameras[k]]

\* Supervisor.Run after <-ctx.Done(): stopAll, which calls cleanupCamera for every
\* descriptor of infosByKey: stopCamera, removeCameraInfo, uplink.StopByCamera and
\* refreshMediaMTXConfig. The media config is left as the last Sync that succeeded
\* wrote it, for the cameras that remained then.
Shutdown ==
    LET keys == DOMAIN infosByKey
        S == UNION {StopByCameraSet(infosByKey[k]) : k \in keys}
    IN  /\ ~shut.cancelled
        /\ ShutFrame("shutdown")
        /\ workers' = [k \in DOMAIN workers \ keys |-> workers[k]]
        /\ cameras' = [k \in DOMAIN cameras \ keys |-> cameras[k]]
        /\ \E oks \in StopSetOks(S) : StopSetStep(S, oks)
        /\ IF mtxGen /\ keys # {}
           THEN \E Dn \in SUBSET keys :
                    mtxPaths' = IF Dn = {} THEN mtxPaths ELSE DOMAIN cameras \ Dn
           ELSE UNCHANGED mtxPaths
        /\ UNCHANGED pending
        /\ shut' = [cancelled |-> TRUE, cleaned |-> keys,
                    syncs |-> IF mtxGen THEN Cardinality(keys) ELSE 0]

\* the messages are those delivered before the context is cancelled
ShutInfo(topic, p) ==
    /\ ~shut.cancelled
    /\ HandleInfo(topic, p)
ShutUplink(topic, action, req) ==
    /\ ~shut.cancelled
    /\ handleUplinkMessage(topic, action, req)

\* a tombstone, a descriptor without and one with a central host
ShutPayloads ==
    { EmptyPayload,
      Payload("json", "Hikvision", "10.0.0.10", TRUE, ""),
      Payload("json", "Hikvision", "10.0.0.10", TRUE, "c1") }
\* commands for the central path of cam1, to two central hosts
ShutRequests ==
    { Req("cam1", "", "c1", 0, "acme/hq/cam1", 0),
      Req("cam1", "", "c2", 0, "acme/hq/cam1", 0) }

NextShut ==
    \/ \E topic \in Topics : \E p \in ShutPayloads \cap PayloadsFor(topic) : ShutInfo(topic, p)
    \/ \E action \in {"start", "stop"}, req \in ShutRequests :
            ShutUplink(Topic("cam1"), action, req)
    \/ Shutdown
    \/ AsyncRefresh

\* every deployment of the UplinkManager, with a media config generator
InitShut == Init

SpecShut == InitShut /\ [][NextShut]_vars

-----------------------------------------------------------------------------
(* SpecDrv: one driver's Run, the consumer of its out-channel and the owner of *)
(* its context                                                                  *)

DrvFrame ==
    /\ UNCHANGED <<cfgvars, histvars, uplinks, containers, live, mtxGen, cameras, workers,
                   pending, mtxPaths, now, lastSeen, lastValid, did, race, pipe, genvars,
                   shut, srt, norm, stat, eng, inflight>>

\* DahuaDriver.notifyStatus; the HikvisionDriver has no status handler
notifyStatus(d, state) == IF d.kind = "dahua" THEN Append(d.rep, state) ELSE d.rep

\* a faulty variant: Run returns the error of runOnce
AfterErrorReturns(ctx) == "returned"

\* Run, after runOnce returned an error: nil when ctx.Err() is set, else the wait of
\* 5 seconds
AfterError(ctx) == IF ctx = "done" THEN "returned" ELSE "backoff"

\* runOnce up to the multipart reader: doDigest, the status code, the content type
\* and the boundary
ConnectOutcomes == {"ok", "connect error", "status", "content type", "media type", "boundary"}

\* runOnce from its first line to the first NextPart; a request with a context that
\* is done fails
DrvConnect(outcome) ==
    /\ drv.pc = "connect"
    /\ outcome = "ok" => drv.ctx = "live"
    /\ DrvFrame
    /\ LET d1 == [drv EXCEPT !.rep = <<>>]
           d2 == [d1 EXCEPT !.rep = notifyStatus(d1, "connecting")]
       IN  drv' = IF outcome = "ok"
                  THEN [d2 EXCEPT !.rep = notifyStatus(d2, "online"), !.pc = "stream"]
                  ELSE [d2 EXCEPT !.rep = notifyStatus(d2, "not_established"),
                                  !.pc = AfterError(drv.ctx), !.failed = TRUE]

\* a faulty variant: the end of the stream is reported as a failure to connect
streamEndNotEstablished(outcome) == "not_established"

\* the state runOnce reports when NextPart fails (io.EOF: "stream ended", else the
\* error)
streamEndState(outcome) == "offline"

\* mr.NextPart: a part that gives an event, a part that is skipped, the end of the
\* stream, a read error
PartOutcomes == {"event", "skip", "eof", "error"}

\* one turn of the loop of runOnce; once the context is done the body gives the
\* parts already read and then an error
DrvRead(outcome) ==
    /\ drv.pc = "stream"
    /\ (drv.ctx = "done" /\ outcome \in {"event", "skip"}) => drv.buf > 0
    /\ (drv.ctx = "done" /\ outcome = "eof") => FALSE
    /\ DrvFrame
    /\ LET d1 == [drv EXCEPT !.buf = IF drv.ctx = "done" /\ @ > 0 THEN @ - 1 ELSE @]
       IN  drv' = CASE outcome = "event" -> [d1 EXCEPT !.pc = "send"]
                    [] outcome = "skip"  -> d1
                    [] OTHER -> [d1 EXCEPT !.rep = notifyStatus(d1, streamEndState(outcome)),
                                           !.pc = AfterError(drv.ctx), !.failed = TRUE]

\* select { case events <- evt: ... }
DrvSend ==
    /\ drv.pc = "send"
    /\ drv.ch < ChanCap
    /\ DrvFrame
    /\ drv' = [drv EXCEPT !.ch = @ + 1, !.pc = "stream",
                          !.sentClosed = @ \/ drv.closes > 0]

\* select { ... case <-ctx.Done(): return nil }, and Run returns
DrvSendCancelled ==
    /\ drv.pc = "send"
    /\ drv.ctx = "done"
    /\ DrvFrame
    /\ drv' = [drv EXCEPT !.pc = "returned"]

\* select { case <-time.After(5 * time.Second): ... }
DrvBackoffTimer ==
    /\ drv.pc = "backoff"
    /\ DrvFrame
    /\ drv' = [drv EXCEPT !.pc = "connect"]

\* select { ... case <-ctx.Done(): return nil }
DrvBackoffCancelled ==
    /\ drv.pc = "backoff"
    /\ drv.ctx = "done"
    /\ DrvFrame
    /\ drv' = [drv EXCEPT !.pc = "returned"]

\* the steps of the driver itself
DrvStep ==
    \/ \E outcome \in ConnectOutcomes : DrvConnect(outcome)
    \/ \E outcome \in PartOutcomes : DrvRead(outcome)
    \/ DrvSend
    \/ DrvSendCancelled
    \/ DrvBackoffTimer
    \/ DrvBackoffCancelled

\* the owner of the context cancels it; n parts of the stream were read before
DrvCancel(n) ==
    /\ drv.ctx = "live"
    /\ DrvFrame
    /\ drv' = [drv EXCEPT !.ctx = "done", !.buf = n,
                          !.blocked = drv.pc = "send" /\ drv.ch = ChanCap]

\* a faulty variant: the channel is closed as soon as the context is done
ClosesOnCancel(d) == d.ctx = "done"

\* the driver task of startOrUpdateCamera reaches its deferred function when
\* drv.Run has returned
RunReturned(d) == d.pc = "returned"

\* the deferred function of the driver task: cancel(), close(eventsCh)
DrvClose ==
    /\ RunReturned(drv)
    /\ drv.closes = 0
    /\ DrvFrame
    /\ drv' = [drv EXCEPT !.ctx = "done", !.closes = @ + 1]

\* `for evt := range eventsCh` receives an event (the count of the events received
\* stops at ChanCap)
DrvConsume ==
    /\ drv.fan = "ranging"
    /\ drv.ch > 0
    /\ DrvFrame
    /\ drv' = [drv EXCEPT !.ch = @ - 1, !.got = IF @ < ChanCap THEN @ + 1 ELSE @]

\* `range eventsCh` ends: the channel is closed and empty
DrvFanExit ==
    /\ drv.fan = "ranging"
    /\ drv.closes > 0 /\ drv.ch = 0
    /\ DrvFrame
    /\ drv' = [drv EXCEPT !.fan = "exited"]

NextDrv ==
    \/ DrvStep
    \/ \E n \in 0..MaxBuffered : DrvCancel(n)
    \/ DrvClose
    \/ DrvConsume
    \/ DrvFanExit

InitDrv ==
    /\ InitManager /\ mode = uplinkModeContainer
    /\ ~ignoreUplink /\ ~alwaysOn /\ alwaysOnPaths = {}
    /\ mtxGen = TRUE
    /\ InitTables /\ race = RaceIdle /\ pipe = PipeNone
    /\ gcfg = Generator(FALSE, FALSE, "pid", maxRecordDeleteAfter)
    /\ file = AbsentFile /\ router = {} /\ sync = NoSync /\ shut = NoShut
    /\ drv \in {Driver("dahua"), Driver("hikvision")}
    /\ srt = NoSrt
    /\ norm = NoNorm
    /\ stat = NoStat
    /\ eng = NoEngines /\ inflight = NoFlight

\* the driver's task is scheduled as long as it can take a step; nothing is assumed
\* of the consumer or of the owner of the context
SpecDrv == InitDrv /\ [][NextDrv]_vars /\ WF_vars(DrvStep)

-----------------------------------------------------------------------------
(* SpecSrt: BuildSRTURLCandidates applied to a host, a port, a path and the       *)
(* UPLINK_SRT_* variables                                                          *)

defaultSRTPacketSize == 1316
defaultSRTLatencyMS == 200

\* url.Values: a function from the keys to the value set last
NoValues == [k \in {} |-> Str("")]
Set(q, key, v) == [k \in DOMAIN q \cup {key} |-> IF k = key THEN v ELSE q[k]]
SetIf(q, cond, key, v) == IF cond THEN Set(q, key, v) ELSE q
Del(q, key) == [k \in DOMAIN q \ {key} |-> q[k]]

\* the loop over the parsed extra parameters: the last value of a key is set
RECURSIVE SetAll(_, _)
SetAll(q, pairs) ==
    IF pairs = <<>> THEN q
    ELSE SetAll(Set(q, Head(pairs)[1], Head(pairs)[2]), Tail(pairs))

applySRTQueryOptions(q, opts) ==
    LET q1 == SetIf(q, opts.Passphrase # "", "passphrase", Str(opts.Passphrase))
        q2 == SetIf(q1, opts.PBKeyLen > 0, "pbkeylen", Num(opts.PBKeyLen))
        q3 == SetIf(q2, opts.PeerLatency > 0, "peerlatency", Num(opts.PeerLatency))
        q4 == SetIf(q3, opts.RcvLatency > 0, "rcvlatency", Num(opts.RcvLatency))
        q5 == SetIf(q4, opts.ConnTimeout > 0, "conntimeo", Num(opts.ConnTimeout))
        q6 == SetIf(q5, opts.SndBuf > 0, "sndbuf", Num(opts.SndBuf))
        q7 == SetIf(q6, opts.InputBW > 0, "inputbw", Num(opts.InputBW))
        q8 == SetIf(q7, opts.OheadBW > 0, "oheadbw", Num(opts.OheadBW))
        q9 == SetIf(q8, opts.TLPktDrop, "tlpktdrop", Num(1))
    IN  IF opts.ExtraParams.ok THEN SetAll(q9, opts.ExtraParams.pairs) ELSE q9

buildSRTQueryValues(streamID, opts) ==
    LET q1 == Set(Set(Set(NoValues, "streamid", streamID), "mode", Str("caller")),
                  "transtype", Str("live"))
        q2 == SetIf(q1, opts.PacketSize > 0, "pkt_size", Num(opts.PacketSize))
        q3 == SetIf(q2, opts.Latency > 0, "latency", Num(opts.Latency))
        q4 == SetIf(q3, opts.MaxBW > 0, "maxbw", Num(opts.MaxBW))
        q5 == SetIf(q4, opts.RcvBuf > 0, "rcvbuf", Num(opts.RcvBuf))
    IN  applySRTQueryOptions(q5, opts)

\* a URL text: Values.Encode writes the keys in their order and escapes the values,
\* so the encoded part is the function itself; Raw is the text "streamid=<id>"
\* written behind it without escaping (NoRaw: nothing is)
NoRaw == StreamID(0, "")
buildSRTURL(host, port, values, raw) ==
    [Scheme |-> "srt", Host |-> host, Port |-> port, RawQuery |-> values, Raw |-> raw]

buildSRTQueryWithRawStreamID(host, port, values, streamID) ==
    buildSRTURL(host, port, Del(values, "streamid"), streamID)

streamIDForPath(path) == IF path.pub > 0 THEN path ELSE StreamID(1, path.s)

\* the names of the model that have a character outside a-z A-Z 0-9 : / - _ . ~
UnsafeNames == {"acme/hq/cam 1"}
isSafeRawStreamID(streamID) == streamID.s \notin UnsafeNames

buildSRTURLVariants(host, port, path, opts) ==
    LET streamID == streamIDForPath(path)
        values == buildSRTQueryValues(streamID, opts)
    IN  <<buildSRTURL(host, port, values, NoRaw)>> \o
        (IF isSafeRawStreamID(streamID)
         THEN <<buildSRTQueryWithRawStreamID(host, port, values, streamID)>> ELSE <<>>)

\* url.Parse(raw).Query().Get(key): the first value of the key in the query, "" for
\* none
Get(u, key) ==
    IF key \in DOMAIN u.RawQuery THEN u.RawQuery[key]
    ELSE IF key = "streamid" /\ u.Raw # NoRaw THEN u.Raw
    ELSE Str("")

validateSRTURL(u) ==
    /\ u.Scheme = "srt"
    /\ u.Host # ""
    /\ Get(u, "streamid") \notin {Str(""), Str(" ")}

withSRTDefaults(opts) ==
    LET o1 == IF opts.Latency = 0 THEN [opts EXCEPT !.Latency = defaultSRTLatencyMS] ELSE opts
    IN  IF o1.PacketSize = 0 THEN [o1 EXCEPT !.PacketSize = defaultSRTPacketSize] ELSE o1

srtOptionCandidates(opts, compatEnabled) ==
    LET base == withSRTDefaults(opts)
        stripped == [base EXCEPT !.PeerLatency = 0, !.RcvLatency = 0, !.TLPktDrop = FALSE,
                                 !.ExtraParams = NoExtraParams]
        defaultLatency == [stripped EXCEPT !.Latency = defaultSRTLatencyMS]
        compat == [stripped EXCEPT !.Latency = 80, !.PeerLatency = 500, !.RcvLatency = 500,
                                   !.TLPktDrop = TRUE]
        c1 == <<base>> \o (IF stripped # base THEN <<stripped>> ELSE <<>>)
        c2 == c1 \o (IF defaultLatency # stripped THEN <<defaultLatency>> ELSE <<>>)
    IN  IF ~compatEnabled THEN c2
        ELSE c2 \o (IF compat \notin {base, stripped, defaultLatency} THEN <<compat>> ELSE <<>>)

srtOptionsForProfile(profile) ==
    CASE profile = "latency" ->
            [SRTQueryOptions(80, 0, FALSE, NoExtraParams) EXCEPT
                !.PacketSize = defaultSRTPacketSize, !.RcvBuf = 2097152]
      [] profile = "balanced" ->
            [SRTQueryOptions(defaultSRTLatencyMS, 0, FALSE, NoExtraParams) EXCEPT
                !.PacketSize = defaultSRTPacketSize]
      [] profile = "quality" ->
            [SRTQueryOptions(400, 0, FALSE, NoExtraParams) EXCEPT
                !.PacketSize = defaultSRTPacketSize, !.MaxBW = 8000000, !.RcvBuf = 8388608]

\* srtOptionsFromEnv: the custom profile (also for no profile and for an unknown one)
\* reads every variable, a named profile only the passphrase and the key length
srtOptionsFromEnv(profile, env) ==
    IF profile \in {"latency", "balanced", "quality"}
    THEN [srtOptionsForProfile(profile) EXCEPT !.Passphrase = env.Passphrase,
                                               !.PBKeyLen = env.PBKeyLen]
    ELSE env

\* normalizeSRTInputs: the host without its port, the port (the argument, else the
\* one of the host, else the default), the path
normalizeSRTInputs(host, port, path) ==
    [ok |-> host.name # "" /\ path.s # "",
     host |-> host.name,
     port |-> IF port > 0 THEN port ELSE IF host.port > 0 THEN host.port ELSE defaultSRTPort,
     path |-> path]

\* the variants of every candidate, one after the other
RECURSIVE SrtVariants(_, _, _, _)
SrtVariants(host, port, path, candidates) ==
    IF candidates = <<>> THEN <<>>
    ELSE buildSRTURLVariants(host, port, path, Head(candidates)) \o
         SrtVariants(host, port, path, Tail(candidates))

\* the loop of BuildSRTURLCandidates: a URL that is not valid or was seen is left out
RECURSIVE SrtKeep(_, _)
SrtKeep(urls, list) ==
    IF list = <<>> THEN urls
    ELSE LET u == Head(list)
             seen == {urls[i] : i \in DOMAIN urls}
         IN  SrtKeep(IF validateSRTURL(u) /\ u \notin seen THEN Append(urls, u) ELSE urls,
                     Tail(list))

BuildSRTURLCandidates(host, port, path, profile, compat, env) ==
    LET n == normalizeSRTInputs(host, port, path)
        candidates == srtOptionCandidates(srtOptionsFromEnv(profile, env), compat)
    IN  IF ~n.ok THEN <<>>
        ELSE SrtKeep(<<>>, SrtVariants(n.host, n.port, n.path, candidates))

SrtFrame ==
    /\ UNCHANGED <<cfgvars, histvars, uplinks, containers, live, mtxGen, cameras, workers,
                   pending, mtxPaths, now, lastSeen, lastValid, did, race, pipe, genvars,
                   shut, drv, norm, stat, eng, inflight>>

\* the Manager builds the candidates of an uplink
SrtBuild ==
    /\ ~srt.built
    /\ srt' = [srt EXCEPT !.built = TRUE,
                          !.urls = BuildSRTURLCandidates(srt.host, srt.port, srt.path,
                                                         srt.profile, srt.compat, srt.env)]
    /\ SrtFrame

NextSrt == SrtBuild

\* the hosts, ports and paths of a request, and the values of the UPLINK_SRT_*
\* variables
SrtHosts == {[name |-> "", port |-> 0], [name |-> "c1", port |-> 0],
             [name |-> "c1", port |-> 9000]}
SrtPorts == {0, 9001}
SrtPaths == {StreamID(0, ""), StreamID(0, "acme/hq/cam1"), StreamID(0, "acme/hq/cam 1"),
             StreamID(1, "acme/hq/cam1")}
SrtProfiles == {"", "latency", "quality", "fast"}
SrtExtras == {NoExtraParams,
              ExtraParams(FALSE, <<>>),
              ExtraParams(TRUE, <<<<"latency", Num(80)>>, <<"latency", Num(200)>>>>),
              ExtraParams(TRUE, <<<<"streamid", Str("other")>>>>),
              ExtraParams(TRUE, <<<<"streamid", Str("")>>, <<"linger", Num(1)>>>>)}
SrtEnvs ==
    {SRTQueryOptions(latency, peer, drop, extra) :
        latency \in {0, 80}, peer \in {0, 500}, drop \in BOOLEAN, extra \in SrtExtras}

InitSrt ==
    /\ InitManager /\ mode = uplinkModeContainer
    /\ ~ignoreUplink /\ ~alwaysOn /\ alwaysOnPaths = {}
    /\ mtxGen = TRUE
    /\ InitTables /\ race = RaceIdle /\ pipe = PipeNone
    /\ gcfg = Generator(FALSE, FALSE, "pid", maxRecordDeleteAfter)
    /\ file = AbsentFile /\ router = {} /\ sync = NoSync /\ shut = NoShut
    /\ drv = Driver("dahua")
    /\ norm = NoNorm
    /\ stat = NoStat
    /\ eng = NoEngines /\ inflight = NoFlight
    /\ srt \in {SrtCall(host, port, path, profile, compat, env) :
                    host \in SrtHosts, port \in SrtPorts, path \in SrtPaths,
                    profile \in SrtProfiles, compat \in BOOLEAN, env \in SrtEnvs}

SpecSrt == InitSrt /\ [][NextSrt]_vars

-----------------------------------------------------------------------------
(* SpecInfo: handleInfoMessage applied to a JSON descriptor, as far as the fields *)
(* it normalises                                                                   *)

\* strings.TrimSpace on the texts of the model
TrimSpace(text) == IF text = " " THEN "" ELSE text
\* strings.TrimSpace on a path given as one text
TrimSpaces(p) == IF p = <<" ">> THEN <<>> ELSE p

\* strings.Trim(text, sep) on the parts joined by sep: the empty parts at both ends go
RECURSIVE TrimLeft(_)
TrimLeft(parts) ==
    IF parts = <<>> \/ Head(parts) # "" THEN parts ELSE TrimLeft(Tail(parts))
RECURSIVE TrimRight(_)
TrimRight(parts) ==
    IF parts = <<>> \/ parts[Len(parts)] # "" THEN parts
    ELSE TrimRight(SubSeq(parts, 1, Len(parts) - 1))
TrimSep(parts) == TrimRight(TrimLeft(parts))

\* path.Join: the elements that are not empty
Join(parts) == SelectSeq(parts, LAMBDA x : x # "")

\* uplink.CentralPathFor with every field of the descriptor: path.Join of the trimmed
\* tenant, building and device id
CentralPathOf(info) ==
    Join(<<TrimSpace(info.Tenant), TrimSpace(info.Building), TrimSpace(info.DeviceID)>>)

\* the default of proxy_path: the device id, or tenant_building_floor_deviceId
\* without the underscores at its ends
defaultProxyPath(info) ==
    IF TrimSpace(info.DeviceID) # "" THEN <<TrimSpace(info.DeviceID)>>
    ELSE TrimSep(<<info.Tenant, info.Building, info.Floor, info.DeviceID>>)

\* a faulty variant: record_enabled is kept as the payload gave it
recordEnabledKept(info) == info.RecordEnabled

\* RecordEnabled after the retention was clamped
recordEnabledFor(info) == info.RecordRetentionMinutes > 0

\* handleInfoMessage from json.Unmarshal to keyFor
normalizeInfo(topic, payload) ==
    LET i1 == [payload EXCEPT !.Tenant = topic.Tenant, !.Building = topic.Building,
                              !.Floor = topic.Floor, !.DeviceType = topic.DeviceType,
                              !.DeviceID = topic.DeviceID]
        i2 == [i1 EXCEPT !.ProxyPath = TrimSpaces(@), !.CentralPath = TrimSpaces(@)]
        i3 == IF i2.ProxyPath = <<>> THEN [i2 EXCEPT !.ProxyPath = defaultProxyPath(i2)] ELSE i2
        i4 == IF i3.CentralPath = <<>> THEN [i3 EXCEPT !.CentralPath = CentralPathOf(i3)] ELSE i3
        i5 == IF i4.RecordRetentionMinutes < 0 THEN [i4 EXCEPT !.RecordRetentionMinutes = 0]
              ELSE i4
        i6 == [i5 EXCEPT !.RecordEnabled = recordEnabledFor(i5)]
    IN  IF i6.PreRollSeconds < 0 THEN [i6 EXCEPT !.PreRollSeconds = 0] ELSE i6

InfoFrame ==
    /\ UNCHANGED <<cfgvars, histvars, uplinks, containers, live, mtxGen, cameras, workers,
                   pending, mtxPaths, now, lastSeen, lastValid, did, race, pipe, genvars,
                   shut, drv, srt, stat, eng, inflight>>

\* handleInfoMessage for a JSON descriptor: a disabled one is not stored
InfoStore ==
    /\ ~norm.handled
    /\ LET info == normalizeInfo(norm.topic, norm.payload)
       IN  norm' = [norm EXCEPT !.handled = TRUE,
                                !.stored = info.Enabled,
                                !.info = IF info.Enabled THEN info ELSE NoInfo]
    /\ InfoFrame

NextInfo == InfoStore

\* the topics (with and without empty levels) and the payloads
InfoTopics ==
    {InfoTopic(tenant, building, floor, dev) :
        tenant \in {"", "acme"}, building \in {"", "hq"}, floor \in {"", "1"},
        dev \in {"", "cam1"}}
InfoIdentities == {InfoTopic("", "", "", ""), InfoTopic("other", "site", "9", "cam9")}
InfoPaths == {<<>>, <<" ">>, <<"door">>}
InfoPayloads ==
    {CameraInfo(id, proxy, central, rec, minutes, preRoll, enabled) :
        id \in InfoIdentities, proxy \in InfoPaths, central \in InfoPaths,
        rec \in BOOLEAN, minutes \in {-1, 0, 5}, preRoll \in {-1, 0, 5},
        enabled \in BOOLEAN}

InitInfo ==
    /\ InitManager /\ mode = uplinkModeContainer
    /\ ~ignoreUplink /\ ~alwaysOn /\ alwaysOnPaths = {}
    /\ mtxGen = TRUE
    /\ InitTables /\ race = RaceIdle /\ pipe = PipeNone
    /\ gcfg = Generator(FALSE, FALSE, "pid", maxRecordDeleteAfter)
    /\ file = AbsentFile /\ router = {} /\ sync = NoSync /\ shut = NoShut
    /\ drv = Driver("dahua") /\ srt = NoSrt /\ stat = NoStat /\ eng = NoEngines /\ inflight = NoFlight
    /\ norm \in {[NoNorm EXCEPT !.topic = topic, !.payload = payload] :
                    topic \in InfoTopics, payload \in InfoPayloads}

SpecInfo == InitInfo /\ [][NextInfo]_vars

-----------------------------------------------------------------------------
(* SpecStatus: the descriptors of two cameras, the connection attempts of their   *)
(* drivers, and the ticks of the status loop                                       *)

StatFrame == UNCHANGED <<race, pipe, genvars, shut, drv, srt, norm, eng, inflight>>

\* the descriptors: a Hikvision camera, a Dahua camera, a camera of a manufacturer
\* without driver, and the tombstone
StatPayloads ==
    { Payload("json", "Hikvision", "10.0.0.10", TRUE, ""),
      Payload("json", "dahua", "10.0.0.10", TRUE, ""),
      Payload("json", "Acme", "10.0.0.10", TRUE, ""),
      EmptyPayload }

\* a message of an info topic; a worker that is cancelled or started has made no
\* attempt
StatInfo(topic, p) ==
    /\ handleInfoMessage(topic, p)
    /\ LET gone == did'.cancelled \cup {did'.key}
       IN  stat' = [stat EXCEPT !.trying = @ \ gone, !.failing = @ \ gone]
    /\ StatFrame

\* the DahuaDriver is a StatusAwareDriver, the HikvisionDriver is not
StatusAware(info) == normalize(info.Manufacturer) = "dahua"

\* runOnce begins: the DahuaDriver reports connecting
StatAttempt(key) ==
    /\ key \in DOMAIN workers /\ key \notin stat.trying
    /\ workers' = IF StatusAware(workers[key].info)
                  THEN updateWorkerStatus(workers, key,
                                          [State |-> "connecting", Reason |-> "abrindo stream"])
                  ELSE workers
    /\ stat' = [stat EXCEPT !.trying = @ \cup {key}]
    /\ UNCHANGED <<pending, mtxPaths, now>>
    /\ QuietFrame("attempt") /\ StatFrame

\* runOnce fails before the stream is read: the DahuaDriver reports not_established
\* with the error, the HikvisionDriver returns the error to Run, which logs it
StatAttemptFails(key) ==
    /\ key \in DOMAIN workers /\ key \in stat.trying
    /\ workers' = IF StatusAware(workers[key].info)
                  THEN updateWorkerStatus(workers, key,
                                          [State |-> "not_established",
                                           Reason |-> "missing boundary"])
                  ELSE workers
    /\ stat' = [stat EXCEPT !.trying = @ \ {key}, !.failing = @ \cup {key}]
    /\ UNCHANGED <<pending, mtxPaths, now>>
    /\ QuietFrame("failure") /\ StatFrame

\* what publishCameraStatus publishes for a worker
CameraStatus(key) ==
    [key |-> key, status |-> workers[key].status, reason |-> workers[key].statusReason]
\* the building of a worker
BuildingOf(info) == <<info.Tenant, info.Building>>

\* publishStatuses returns at once when the snapshot of the workers is empty
collectorPublishes(ws) == DOMAIN ws # {}

\* a tick of runStatusLoop: publishStatuses
publishStatuses ==
    /\ stat.loop
    /\ stat' = [stat EXCEPT
                  !.tick = ~@,
                  !.cams = {CameraStatus(key) : key \in DOMAIN workers},
                  !.buildings = IF collectorPublishes(workers)
                                THEN {BuildingOf(workers[key].info) : key \in DOMAIN workers}
                                ELSE {}]
    /\ UNCHANGED <<workers, pending, mtxPaths, now>>
    /\ QuietFrame("publishStatuses") /\ StatFrame

NextStatus ==
    \/ \E topic \in Topics : \E p \in StatPayloads : StatInfo(topic, p)
    \/ \E key \in DOMAIN workers : StatAttempt(key)
    \/ \E key \in DOMAIN workers : StatAttemptFails(key)
    \/ publishStatuses

InitStatus == InitSup /\ mode = uplinkModeContainer /\ ~mtxGen

SpecStatus == InitStatus /\ [][NextStatus]_vars

\* SpecInterval: the descriptors of one camera under every value of
\* CAMBUS_STATUS_INTERVAL_SECONDS
StatusEnvs == {EnvUnset, EnvText(TRUE, TRUE, 0), EnvText(TRUE, TRUE, 5),
               EnvText(TRUE, TRUE, -1), EnvText(TRUE, FALSE, 0)}

NextInterval ==
    \/ \E p \in StatPayloads : StatInfo(WatchedTopic, p)
    \/ StatAttempt(supervisorKeyFor(WatchedTopic))
    \/ StatAttemptFails(supervisorKeyFor(WatchedTopic))
    \/ publishStatuses

InitInterval ==
    /\ InitManager /\ mode = uplinkModeContainer
    /\ ~ignoreUplink /\ ~alwaysOn /\ alwaysOnPaths = {}
    /\ mtxGen = FALSE
    /\ InitTables /\ race = RaceIdle /\ pipe = PipeNone
    /\ gcfg = Generator(FALSE, FALSE, "pid", maxRecordDeleteAfter)
    /\ file = AbsentFile /\ router = {} /\ sync = NoSync /\ shut = NoShut
    /\ drv = Driver("dahua") /\ srt = NoSrt /\ norm = NoNorm /\ eng = NoEngines /\ inflight = NoFlight
    /\ stat \in {StatusLoop(v) : v \in StatusEnvs}

SpecInterval == InitInterval /\ [][NextInterval]_vars

-----------------------------------------------------------------------------
(* SpecEngines: engines.Manager.ProcessAll, one turn of its loop at a time        *)

EngFrame ==
    /\ UNCHANGED <<cfgvars, histvars, uplinks, containers, live, mtxGen, cameras, workers,
                   pending, mtxPaths, now, lastSeen, lastValid, did, race, pipe, genvars,
                   shut, drv, srt, norm, stat, inflight>>

\* the k-th event derived by engine i from the event evt
Derived(i, evt, k) == [engine |-> i, of |-> evt, k |-> k]

\* what Process of engine i returns for evt: the events, also beside an error
Process(e, i, evt) == [k \in 1..e.n |-> Derived(i, evt, k)]

\* a faulty variant: a panic of Process is not caught
recoverNothing(result) == result

\* the deferred recover around Process: a panic becomes an error
recover(result) == IF result = "panic" THEN "error" ELSE result

\* one turn of `for _, e := range m.engines`
EngineTurn ==
    /\ eng.i <= Len(eng.engines)
    /\ ~eng.panicked
    /\ LET e == eng.engines[eng.i]
           r == recover(e.result)
           called == [eng EXCEPT !.i = @ + 1, !.calls = Append(@, <<eng.i, eng.evt>>)]
       IN  eng' = IF ~e.enabled THEN [eng EXCEPT !.i = @ + 1]
                  ELSE IF r = "panic" THEN [called EXCEPT !.panicked = TRUE]
                  ELSE IF r = "error" THEN called
                  ELSE [called EXCEPT !.out = @ \o Process(e, eng.i, eng.evt)]
    /\ EngFrame

NextEngines == EngineTurn

\* the engines: enabled or not, ending well, with an error or with a panic
Engines ==
    {Engine(enabled, result, n) :
        enabled \in BOOLEAN, result \in {"ok", "error", "panic"}, n \in 0..MaxDerived}
RECURSIVE EngineLists(_)
EngineLists(n) ==
    IF n = 0 THEN {<<>>}
    ELSE EngineLists(n - 1) \cup
         {Append(l, e) : l \in {x \in EngineLists(n - 1) : Len(x) = n - 1}, e \in Engines}

InitEngines ==
    /\ InitManager /\ mode = uplinkModeContainer
    /\ ~ignoreUplink /\ ~alwaysOn /\ alwaysOnPaths = {}
    /\ mtxGen = TRUE
    /\ InitTables /\ race = RaceIdle /\ pipe = PipeNone
    /\ gcfg = Generator(FALSE, FALSE, "pid", maxRecordDeleteAfter)
    /\ file = AbsentFile /\ router = {} /\ sync = NoSync /\ shut = NoShut
    /\ drv = Driver("dahua") /\ srt = NoSrt /\ norm = NoNorm /\ stat = NoStat
    /\ eng \in {ProcessCall(engines, 1) : engines \in EngineLists(MaxEngines)}
    /\ inflight = NoFlight

SpecEngines == InitEngines /\ [][NextEngines]_vars

-----------------------------------------------------------------------------
(* SpecRestart: the descriptors of one camera, the tasks of its worker and the    *)
(* tasks of the worker that was cancelled before (w.cancel() returns at once, the  *)
(* driver task and the publisher task of the cancelled worker end later)           *)

RestartKey == supervisorKeyFor(WatchedTopic)

\* descriptors that differ in a field cameraInfoEqual compares
RestartPayloads ==
    { Payload("json", "dahua", "10.0.0.10", TRUE, ""),
      Payload("json", "dahua", "10.0.0.11", TRUE, ""),
      Payload("json", "Hikvision", "10.0.0.10", TRUE, "") }

RestartFrame ==
    /\ UNCHANGED <<pending, mtxPaths, now>>
    /\ UNCHANGED <<race, genvars, extvars>>

\* a message of the info topic: the tasks of a cancelled worker go on (a worker is
\* cancelled here once the tasks of the one cancelled before have ended)
RestartInfo(p) ==
    /\ handleInfoMessage(WatchedTopic, p)
    /\ did'.cancelled # {} => pipe.old.fan \in {"none", "exited"}
    /\ pipe' = [pipe EXCEPT
                  !.old = IF did'.cancelled # {}
                          THEN [driver |-> "running", fan |-> "ranging", ch |-> 0,
                                aware |-> StatusAware(workers[RestartKey].info)]
                          ELSE @,
                  !.fresh = IF did'.started THEN FALSE ELSE @]
    /\ UNCHANGED <<race, genvars, extvars>>

\* the states a cancelled DahuaDriver reports through the handler that
\* startOrUpdateCamera installed for its key: the request or the read fails
StaleUpdates ==
    { [State |-> "not_established", Reason |-> "context canceled"],
      [State |-> "offline", Reason |-> "context canceled"] }

\* the handler of the cancelled worker's driver: s.updateWorkerStatus(key, update)
StaleReport(update) ==
    /\ pipe.old.driver = "running" /\ pipe.old.aware
    /\ workers' = updateWorkerStatus(workers, RestartKey, update)
    /\ pipe' = pipe
    /\ QuietFrame("stale report") /\ RestartFrame

\* the cancelled driver sends an event: its select may take the send
StaleEmit ==
    /\ pipe.old.driver = "running" /\ pipe.old.ch = 0
    /\ pipe' = [pipe EXCEPT !.old.ch = 1]
    /\ UNCHANGED workers
    /\ QuietFrame("stale emit") /\ RestartFrame

\* the cancelled driver's Run returns: cancel(), close(eventsCh)
StaleReturn ==
    /\ pipe.old.driver = "running"
    /\ pipe' = [pipe EXCEPT !.old.driver = "returned"]
    /\ UNCHANGED workers
    /\ QuietFrame("stale return") /\ RestartFrame

\* the publisher task of the cancelled worker receives an event: s.touchWorker(key)
StaleTake ==
    /\ pipe.old.fan = "ranging" /\ pipe.old.ch > 0
    /\ workers' = touchWorker(workers, RestartKey)
    /\ pipe' = [pipe EXCEPT !.old.ch = 0]
    /\ QuietFrame("stale take") /\ RestartFrame

\* the publisher task of the cancelled worker ends: its deferred
\* s.updateWorkerStatus(key, offline)
StaleExit ==
    /\ pipe.old.fan = "ranging" /\ pipe.old.driver = "returned" /\ pipe.old.ch = 0
    /\ workers' = updateWorkerStatus(workers, RestartKey,
                                     [State |-> "offline", Reason |-> "event stream encerrado"])
    /\ pipe' = [pipe EXCEPT !.old.fan = "exited"]
    /\ QuietFrame("stale exit") /\ RestartFrame

\* the driver of the worker of the record reports a state
FreshReport(update) ==
    /\ RestartKey \in DOMAIN workers /\ StatusAware(workers[RestartKey].info)
    /\ workers' = updateWorkerStatus(workers, RestartKey, update)
    /\ pipe' = [pipe EXCEPT !.fresh = TRUE]
    /\ QuietFrame("report") /\ RestartFrame

\* the publisher task of the worker of the record receives an event
FreshTake ==
    /\ RestartKey \in DOMAIN workers
    /\ workers' = touchWorker(workers, RestartKey)
    /\ pipe' = [pipe EXCEPT !.fresh = TRUE]
    /\ QuietFrame("take") /\ RestartFrame

NextRestart ==
    \/ \E p \in RestartPayloads : RestartInfo(p)
    \/ \E update \in StaleUpdates : StaleReport(update)
    \/ StaleEmit
    \/ StaleReturn
    \/ StaleTake
    \/ StaleExit
    \/ \E update \in StatusUpdates : FreshReport(update)
    \/ FreshTake

InitRestart == InitSup /\ mode = uplinkModeContainer /\ ~mtxGen

SpecRestart == InitRestart /\ [][NextRestart]_vars

-----------------------------------------------------------------------------
(* SpecFlight: the Manager with its timer callbacks and its reconcile pass as     *)
(* tasks of their own: a fired timer runs stopUplink when it gets the mutex, a     *)
(* pass inspects without the mutex and takes it for each removal                   *)

FlightRequests ==
    { Req("cam1", "", "c1", 8890, "acme/hq/cam1", 1),
      Req("cam1", "", "c2", 0,    "acme/hq/cam1", 0) }

FlightFrame ==
    UNCHANGED <<cfgvars, mon, mtxGen, cameras, workers, pending, mtxPaths, now, lastSeen,
                lastValid, did, race, pipe, genvars, shut, drv, srt, norm, stat, eng>>

\* startUplink puts a new uplinkProcess into the table under the key of req
Registers(req, outcome) ==
    /\ validateStart(applyDefaults(req)) = "nil"
    /\ ~Coalesces(keyFor(applyDefaults(req)), applyDefaults(req))
    /\ mode = uplinkModeMediaMTX \/ outcome = "ok"

\* the tasks under way once a new process is registered under key
Outdated(fl, key) ==
    [fl EXCEPT !.ttl = {[cb EXCEPT !.stale = @ \/ cb.key = key] : cb \in fl.ttl},
               !.late = @ \/ fl.cur.key = key]

FlightStart(req) ==
    /\ StartInRange(req)
    /\ \E outcome \in StartOutcomes(req), stopOk \in StartStopOks(req) :
            /\ StartStep(req, outcome, stopOk)
            /\ last' = StartEv(req, outcome, stopOk)
            /\ inflight' = IF Registers(req, outcome)
                           THEN Outdated(inflight, keyFor(applyDefaults(req)))
                           ELSE inflight
    /\ FlightFrame

FlightStop(req) ==
    /\ \E stopOk \in StopOks(req) : StopStep(req, stopOk) /\ last' = StopEv(req, stopOk)
    /\ UNCHANGED inflight
    /\ FlightFrame

FlightExit(name) ==
    /\ ContainerExits(name) /\ last' = ExitEv
    /\ UNCHANGED inflight
    /\ FlightFrame

\* the timer of refreshTTL fires: its callback starts and waits for the mutex
TimerFire(key) ==
    /\ TTLEnabled(key)
    /\ \A cb \in inflight.ttl : cb.key # key
    /\ uplinks' = Fired(key)
    /\ inflight' = [inflight EXCEPT !.ttl = @ \cup {[key |-> key, stale |-> FALSE]}]
    /\ last' = Event("Fire", key, NoReq, "nil", FALSE, <<>>, {})
    /\ UNCHANGED <<containers, live>>
    /\ FlightFrame

\* the callback gets the mutex: m.stopUplink(proc.cameraKey, "ttl expired")
TimerRun(cb) ==
    /\ cb \in inflight.ttl
    /\ \E stopOk \in TTLOks(cb.key) :
            /\ stopUplinkStep(uplinks, cb.key, stopOk)
            /\ last' = stopUplinkEv("TTL", NoReq, uplinks, cb.key, "ttl expired", stopOk)
    /\ inflight' = [inflight EXCEPT !.ttl = @ \ {cb}]
    /\ FlightFrame

\* reconcileOnce: snapshotUplinks, under the mutex
PassSnapshot ==
    /\ ReconcilerRuns
    /\ ~inflight.pass
    /\ uplinks # << >>
    /\ inflight' = [inflight EXCEPT
                      !.pass = TRUE,
                      !.todo = {[key |-> k, container |-> uplinks[k].container] :
                                    k \in DOMAIN uplinks}]
    /\ last' = Event("Snapshot", "", NoReq, "nil", FALSE, <<>>, {})
    /\ UNCHANGED <<uplinks, containers, live>>
    /\ FlightFrame

\* reconcileOnce: InspectStatus of the container of the next snapshot, without the
\* mutex; it fails when there is no such container and whenever docker fails
PassInspect(snap, fails) ==
    /\ inflight.pass /\ inflight.cur = NoSnap /\ snap \in inflight.todo
    /\ containers[snap.container] = "absent" => fails
    /\ inflight' = [inflight EXCEPT
                      !.todo = @ \ {snap},
                      !.pass = ~(fails /\ inflight.todo = {snap}),
                      !.cur = IF fails THEN NoSnap ELSE snap,
                      !.state = IF fails THEN "" ELSE InspectState(snap.container),
                      !.late = FALSE]
    /\ last' = Event("Inspect", snap.key, NoReq, "nil", FALSE, <<>>, {})
    /\ UNCHANGED <<uplinks, containers, live>>
    /\ FlightFrame

\* the entry the pass acts on, under the mutex: the one of the key of the snapshot,
\* if its container has the name of the snapshot
PassFinds(snap) ==
    snap.key \in DOMAIN uplinks /\ uplinks[snap.key].container = snap.container

\* reconcileOnce: with the mutex, containerStatus is set, and for a state other than
\* running the process is stopped and its entry deleted
PassApply ==
    /\ inflight.pass /\ inflight.cur # NoSnap
    /\ IF ~PassFinds(inflight.cur)
       THEN /\ UNCHANGED <<uplinks, containers, live>>
            /\ last' = Event("Reconcile", inflight.cur.key, NoReq, "nil", FALSE, <<>>, {})
       ELSE IF inflight.state = "running"
       THEN /\ uplinks' = [uplinks EXCEPT ![inflight.cur.key].containerStatus = "running"]
            /\ UNCHANGED <<containers, live>>
            /\ last' = Event("Reconcile", inflight.cur.key, NoReq, "nil", FALSE, <<>>, {})
       ELSE \E oks \in StopSetOks({inflight.cur.key}) :
            /\ StopSetStep({inflight.cur.key}, oks)
            /\ last' = StopSetEv("Reconcile", {inflight.cur.key}, oks, "container state", {})
    /\ inflight' = [inflight EXCEPT !.cur = NoSnap, !.state = "", !.late = FALSE,
                                    !.pass = inflight.todo # {}]
    /\ FlightFrame

NextFlight ==
    \/ \E req \in FlightRequests : FlightStart(req)
    \/ \E req \in FlightRequests : FlightStop(req)
    \/ \E name \in Names : FlightExit(name)
    \/ \E key \in Keys : TimerFire(key)
    \/ \E cb \in inflight.ttl : TimerRun(cb)
    \/ PassSnapshot
    \/ \E snap \in inflight.todo, fails \in BOOLEAN : PassInspect(snap, fails)
    \/ PassApply

InitFlight ==
    /\ Init
    /\ mode = uplinkModeContainer /\ ~ignoreUplink /\ ~alwaysOn /\ alwaysOnPaths = {}

SpecFlight == InitFlight /\ [][NextFlight]_vars

-----------------------------------------------------------------------------
(* SpecLocks: the tasks of the process as the sequences of Lock and Unlock calls   *)
(* they make on Supervisor.mu, Manager.mu and Generator.mu                         *)

Lock(m) == <<"lock", m>>
Unlock(m) == <<"unlock", m>>

\* a function that locks m, has its deferred Unlock and calls nothing that locks
Section(m) == <<Lock(m), Unlock(m)>>

\* the status hook: handleUplinkStatus calls findCameraInfoForUplinkStatus, which
\* holds Supervisor.mu, and publishes after it returned
StatusHook == Section("Supervisor.mu")

\* an operation of the Manager that holds Manager.mu and reports one status from
\* inside it: startUplink, stopUplink, StopByCamera (through stopProcess)
UnderManager == <<Lock("Manager.mu")>> \o StatusHook \o <<Unlock("Manager.mu")>>

\* a faulty variant: cleanupCamera calls StopByCamera while it holds Supervisor.mu
cleanupCameraCallsNested ==
    <<Lock("Supervisor.mu")>> \o UnderManager \o <<Unlock("Supervisor.mu")>>
        \o Section("Supervisor.mu") \o Section("Generator.mu")

\* cleanupCamera: stopCamera, removeCameraInfo, StopByCamera, refreshMediaMTXConfig
\* (snapshotCameraInfos, then Generator.Sync)
cleanupCameraCalls ==
    Section("Supervisor.mu") \o Section("Supervisor.mu") \o UnderManager
        \o Section("Supervisor.mu") \o Section("Generator.mu")

\* the scripts a task may run
ScriptsOf(t) ==
    CASE t = "info"      -> {"enabled", "disabled"}
      [] t = "control"   -> {"command"}
      [] t = "status"    -> {"publishStatuses"}
      [] t = "reconcile" -> {"reconcileOnce"}
      [] t = "timer"     -> {"ttl expired"}
      [] t = "refresh"   -> {"refreshMediaMTXConfig"}

Script(name) ==
    CASE \* handleInfoMessage, enabled descriptor with a central host:
         \* upsertCameraInfo, Manager.Start, startOrUpdateCamera
         name = "enabled" ->
            Section("Supervisor.mu") \o UnderManager \o Section("Supervisor.mu")
         \* handleInfoMessage, tombstone or disabled descriptor
      [] name = "disabled" -> cleanupCameraCalls
         \* handleUplinkMessage: Manager.Start or Manager.Stop
      [] name = "command" -> UnderManager
         \* publishStatuses: snapshotWorkers, then the publishes
      [] name = "publishStatuses" -> Section("Supervisor.mu")
         \* reconcileOnce: snapshotUplinks, the hook called without the mutex after
         \* the inspect, then stopProcess under the mutex
      [] name = "reconcileOnce" -> Section("Manager.mu") \o StatusHook \o UnderManager
         \* the callback of refreshTTL: stopUplink
      [] name = "ttl expired" -> UnderManager
         \* `go s.refreshMediaMTXConfig()`: snapshotCameraInfos, Generator.Sync
      [] name = "refreshMediaMTXConfig" ->
            Section("Supervisor.mu") \o Section("Generator.mu")
      [] OTHER -> <<>>

\* the call the task t is at
CallOf(t) == Script(inflight.at[t].script)[inflight.at[t].pc]

Runs(t) == inflight.at[t].script # "idle"
Waits(t, m) == Runs(t) /\ CallOf(t) = Lock(m)
Holds(t, m) == inflight.held[m] = t
Blocked(t) == \E m \in Mutexes : Waits(t, m)

\* the position after the call: the task is idle again after the last one
After(t) ==
    IF inflight.at[t].pc = Len(Script(inflight.at[t].script))
    THEN Idle ELSE [inflight.at[t] EXCEPT !.pc = @ + 1]

LocksFrame ==
    UNCHANGED <<cfgvars, uplinks, containers, live, histvars, mtxGen, cameras, workers,
                pending, mtxPaths, now, lastSeen, lastValid, did, race, pipe, genvars,
                shut, drv, srt, norm, stat, eng>>

\* a message arrives, a timer fires, a ticker ticks, a refresh is spawned
Begin(t, name) ==
    /\ ~Runs(t)
    /\ inflight' = [inflight EXCEPT !.at[t] = [script |-> name, pc |-> 1]]
    /\ LocksFrame

\* mu.Lock() returns
Acquire(t) ==
    /\ Runs(t)
    /\ \E m \in Mutexes :
          /\ CallOf(t) = Lock(m)
          /\ inflight.held[m] = ""
          /\ inflight' = [inflight EXCEPT !.held[m] = t, !.at[t] = After(t)]
    /\ LocksFrame

\* mu.Unlock()
Release(t) ==
    /\ Runs(t)
    /\ \E m \in Mutexes :
          /\ CallOf(t) = Unlock(m)
          /\ inflight' = [inflight EXCEPT !.held[m] = "", !.at[t] = After(t)]
    /\ LocksFrame

NextLocks ==
    \/ \E t \in Tasks : \E name \in ScriptsOf(t) : Begin(t, name)
    \/ \E t \in Tasks : Acquire(t)
    \/ \E t \in Tasks : Release(t)

InitLocks ==
    /\ Init
    /\ mode = uplinkModeContainer /\ ~ignoreUplink /\ ~alwaysOn /\ alwaysOnPaths = {}

\* a task that runs goes on; sync.Mutex hands the mutex to a goroutine that has
\* waited (starvation mode), so a Lock that can return again and again does return
SpecLocks ==
    /\ InitLocks /\ [][NextLocks]_vars
    /\ \A t \in Tasks : WF_vars(Release(t)) /\ SF_vars(Acquire(t))

-----------------------------------------------------------------------------
(* SpecRefresh: the descriptors of two cameras and the refresh tasks that          *)
(* startOrUpdateCamera spawns, each in two steps: snapshotCameraInfos under        *)
(* Supervisor.mu, then Generator.Sync under Generator.mu. Every Sync succeeds.     *)

RefreshPayloads == {Payload("json", "dahua", "10.0.0.10", TRUE, ""), EmptyPayload}

RefreshFrame ==
    UNCHANGED <<race, pipe, genvars, shut, drv, srt, norm, stat, eng>>

\* a message of an info topic; the Sync of cleanupCamera succeeds
RefreshInfo(topic, p) ==
    /\ handleInfoMessage(topic, p)
    /\ did'.refresh = "sync" => mtxPaths' = DOMAIN cameras'
    /\ UNCHANGED inflight
    /\ RefreshFrame

\* refreshMediaMTXConfig, first half: infos := s.snapshotCameraInfos()
RefreshSnapshot ==
    /\ pending > 0
    /\ pending' = pending - 1
    /\ inflight' = [inflight EXCEPT !.snaps = @ \cup {DOMAIN cameras}]
    /\ UNCHANGED <<workers, mtxPaths, now>>
    /\ QuietFrame("snapshot") /\ RefreshFrame

\* refreshMediaMTXConfig, second half: s.mtxGen.Sync(infos)
RefreshSync(snap) ==
    /\ snap \in inflight.snaps
    /\ mtxPaths' = snap
    /\ inflight' = [inflight EXCEPT !.snaps = @ \ {snap}]
    /\ UNCHANGED <<workers, pending, now>>
    /\ QuietFrame("sync") /\ RefreshFrame

NextRefresh ==
    \/ \E topic \in Topics : \E p \in RefreshPayloads : RefreshInfo(topic, p)
    \/ RefreshSnapshot
    \/ \E snap \in inflight.snaps : RefreshSync(snap)

InitRefresh == InitSup /\ mode = uplinkModeContainer /\ mtxGen

SpecRefresh == InitRefresh /\ [][NextRefresh]_vars

-----------------------------------------------------------------------------
(* Properties of the UplinkManager *)

\* the uplink of key k is running: an entry exists and its process has not been stopped
Running(k) ==
    /\ k \in DOMAIN uplinks
    /\ (mode = uplinkModeContainer => live[uplinks[k].container] >= 1)

\* no request of the followed key is always-on (nor is ignore mode on)
TrackedRequests == {r \in ValidRequests : keyFor(applyDefaults(r)) = TrackedKey}
Plain == \A r \in TrackedRequests : ~isAlwaysOnRequest(applyDefaults(r))

\* C1, as stated: after any sequence of Starts with one payload and Stops on a key (no
\* TTL expiry, no always-on or ignore mode, no removal by reconcile), the uplink is
\* running iff fewer Stops than Starts were received.
C1_RunningIffFewerStops ==
    (mon.phase # "off" /\ Plain) => (Running(TrackedKey) <=> mon.m < mon.n)

\* C1, amended: ... the uplink is running iff the Stops that found an entry are fewer
\* than the Starts that returned success (a Stop on an absent key returns "uplink not
\* running" and is not counted; a Start whose launch failed leaves nothing running).
C1_RunningIffFewerStopsFound ==
    (mon.phase # "off" /\ Plain) => (Running(TrackedKey) <=> mon.e > 0)

\* a Stop on the absent key, then a Start: one of each received, and the uplink runs
C1_Witness ==
    /\ Plain
    /\ mon.phase = "mixed" /\ mon.n = 1 /\ mon.m = 1 /\ mon.e = 1
    /\ Running(TrackedKey)

C3_ExpiryTerminates ==
    last.op = "TTL" =>
        /\ last.key \notin DOMAIN uplinks
        /\ (mode = uplinkModeContainer => IsCall(last, "stop"))

\* C4: no container name ever has more than one process launched and not stopped; a
\* Start whose payload differs from the entry's calls Launcher.Stop on the old process
\* before Launcher.Start, reports the stop ("restarting with new payload"), and on
\* success leaves an entry with startCount = 1, stopCount = 0 and the new payload.
C4_AtMostOneProcess ==
    /\ \A n \in Names : live[n] <= 1
    /\ (last.op = "Start" /\ last.hit) =>
            LET r == applyDefaults(last.req)
                name == NameForCentralPath(r.CentralPath)
            IN  /\ mode = uplinkModeContainer =>
                        last.lcalls = << <<"stop", name>>, <<"start", name>> >>
                /\ \E st \in last.statuses :
                        \/ st.State = "stopped" /\ st.Error = "restarting with new payload"
                        \/ st.State = "error" /\ st.Error = "remove docker container"
                /\ last.result = "nil" =>
                        /\ last.key \in DOMAIN uplinks
                        /\ uplinks[last.key].payload = r
                        /\ uplinks[last.key].startCount = 1
                        /\ uplinks[last.key].stopCount = 0

\* a Start with another payload has replaced a running uplink
C4_Witness ==
    /\ mode = uplinkModeContainer
    /\ last.op = "Start" /\ last.hit /\ last.result = "nil"
    /\ live[NameForCentralPath(last.key)] = 1

\* C5, as stated: Stop and stop-by-camera leave every always-on entry (global flag or
\* per-path list) as it is, and no always-on entry has an armed TTL timer.
C5_AlwaysOnStopsAreNoOps ==
    [][ \A k \in DOMAIN uplinks :
            uplinks[k].alwaysOn =>
                /\ ~uplinks[k].ttlTimer
                /\ last'.op \in {"Stop", "StopByCamera"} =>
                        (k \in DOMAIN uplinks' /\ uplinks'[k] = uplinks[k]) ]_vars

\* C6, as stated: in ignore mode Start, Stop and StopAll call no launcher operation
\* and leave the uplinks table as it is.
C6_IgnoreModeNoOps ==
    [][ (ignoreUplink /\ last'.op \in {"Start", "Stop", "StopAll"}) =>
            (uplinks' = uplinks /\ last'.lcalls = <<>>) ]_vars

\* what a reconcile pass does with the entry of key k, given that its status was
\* (inspected = TRUE) or was not emitted
PassOn(k, inspected) ==
    LET st == InspectStatusOf(k)
    IN  IF ~inspected
        THEN k \in DOMAIN uplinks' /\ uplinks'[k] = uplinks[k]
        ELSE IF st.State # "running"
        THEN /\ k \notin DOMAIN uplinks'
             /\ \E i \in 1..Len(last'.lcalls) : last'.lcalls[i] = <<"stop", uplinks[k].container>>
        ELSE k \in DOMAIN uplinks' /\ uplinks'[k] = uplinks[k]

-----------------------------------------------------------------------------
(* Properties of the Supervisor *)

C10_RepeatedDescriptorIsIdle ==
    [][ (did'.op = "info" /\ did'.kind = "enabled" /\ did'.repeat) =>
            /\ did'.cancelled = {}
            /\ ~did'.started
            /\ workers' = workers ]_vars

\* the repeated descriptor found a worker that had been online and went offline
C10_Witness ==
    /\ did.op = "info" /\ did.kind = "enabled" /\ did.repeat
    /\ did.key \in DOMAIN workers
    /\ workers[did.key].everConnected
    /\ workers[did.key].status = "offline"
    /\ workers[did.key].statusSince > 1

\* C11: an enabled descriptor (of a manufacturer with a registered driver) whose
\* normalised content differs in any field from the descriptor held by the WorkerRecord
\* of its identity cancels the old worker and puts one new WorkerRecord in state
\* connecting, holding the new descriptor, in its place; a descriptor equal in every
\* field is ignored.
C11_ChangedDescriptorRestarts ==
    [][ \A t \in Topics :
          LET key == supervisorKeyFor(t)
              info == DecodedInfo(t, lastSeen'[key])
          IN  ( /\ did'.op = "info" /\ did'.kind = "enabled" /\ did'.key = key
                /\ key \in DOMAIN workers
                /\ GetDriver(info) ) =>
                    IF workers[key].info # info
                    THEN /\ key \in did'.cancelled
                         /\ did'.started
                         /\ key \in DOMAIN workers'
                         /\ workers'[key].info = info
                         /\ workers'[key].status = "connecting"
                    ELSE /\ did'.cancelled = {}
                         /\ ~did'.started
                         /\ workers' = workers ]_vars

\* C12: when two messages of one identity are handled on two threads at once, the
\* cameras table and the workers table they leave are those of handling the two
\* messages one after the other, in one order or the other.
C12_ConcurrentAsSequential ==
    race.phase = "done" =>
        <<cameras, workers>> \in
            { HandledAlone(HandledAlone(race.base, race.th[1].msg), race.th[2].msg),
              HandledAlone(HandledAlone(race.base, race.th[2].msg), race.th[1].msg) }

-----------------------------------------------------------------------------
(* Properties of the worker's tasks *)

\* C13: the events of one driver reach the bus in the order the driver emitted them,
\* the derived events of an event after that event and before the next event and
\* its derived events.
C13_PublishedInOrder ==
    \A i, j \in 1..Len(pipe.pub) :
        i < j => \/ pipe.pub[i].id < pipe.pub[j].id
                 \/ (pipe.pub[i].id = pipe.pub[j].id /\ pipe.pub[j].kind = "derived")

\* the first event of the driver, a derived event of it, the second event and a
\* derived event of it were published
C13_Witness ==
    /\ Len(pipe.pub) = 4
    /\ pipe.pub[1].id = 1 /\ pipe.pub[1].kind = "orig"
    /\ pipe.pub[2].id = 1 /\ pipe.pub[2].kind = "derived"
    /\ pipe.pub[3].id = 2 /\ pipe.pub[3].kind = "orig"
    /\ pipe.pub[4].id = 2 /\ pipe.pub[4].kind = "derived"

\* C14: no payload published to the bus, of an event or of a derived event, has the
\* SnapshotB64 field or the raw snapshot bytes.
C14_NoSnapshotOnBus ==
    \A i \in 1..Len(pipe.pub) :
        /\ "SnapshotB64" \notin pipe.pub[i].fields
        /\ "RawSnapshot" \notin pipe.pub[i].fields

\* an event that carries a base64 snapshot and raw bytes was published, and so was a
\* derived event of it that carries them too
C14_Witness ==
    /\ pipe.cur.id # 0 /\ pipe.cur.SnapshotB64 = "img" /\ pipe.cur.RawSnapshot = "raw"
    /\ Len(pipe.todo) = 1 /\ pipe.done = 1
    /\ pipe.todo[1].SnapshotB64 = "img" /\ pipe.todo[1].RawSnapshot = "raw"
    /\ Len(pipe.pub) = 2
    /\ pipe.pub[1].id = pipe.cur.id /\ pipe.pub[1].kind = "orig"
    /\ pipe.pub[2].id = pipe.cur.id /\ pipe.pub[2].kind = "derived"

\* C15: once the handler of a tombstone has returned, nothing more of the camera's
\* worker is published to the bus.
C15_SilentAfterTombstone ==
    [][ (pipe.stopped /\ pipe'.stopped) => pipe'.pub = pipe.pub ]_vars

-----------------------------------------------------------------------------
(* Properties of the media config generator *)

\* C16: a Sync with the descriptors of the Sync before, which succeeded, rewrites
\* nothing, makes no admin API call and sends no reload signal.
C16_SecondSyncIsIdle ==
    [][ (sync.result = "nil" /\ sync'.cams = sync.cams) =>
            /\ ~sync'.wrote /\ file' = file
            /\ sync'.calls = {}
            /\ sync'.signal = "none" ]_vars

\* C17: in every config a Sync writes, the default retention and the retention of
\* every path are at most 10 minutes and at most the generator's ceiling.
C17_RetentionBounded ==
    sync.wrote =>
        /\ DurationOf(file.text.defaults) <= maxRecordDeleteAfter
        /\ DurationOf(file.text.defaults) <= gcfg.recordDeleteAfter
        /\ \A n \in DOMAIN file.text.paths :
              /\ DurationOf(file.text.paths[n].RecordDeleteAfter) <= maxRecordDeleteAfter
              /\ DurationOf(file.text.paths[n].RecordDeleteAfter) <= gcfg.recordDeleteAfter

\* C18: the config a Sync writes is the one it would write for the same descriptors
\* in any other order.
C18_OrderIndependent ==
    [][ sync'.wrote =>
            \A other \in Orders({sync'.cams[i] : i \in 1..Len(sync'.cams)}) :
                marshalConfig(buildConfig(gcfg, readExistingConfig(file).cfg,
                                          readExistingConfig(file).exists, other))
                    = file'.text ]_vars

\* C19: after a Sync that rewrote the file and failed to apply the change, the next
\* Sync with the same descriptors calls the admin API or sends the reload signal.
C19_FailedApplyIsRetried ==
    [][ (sync.wrote /\ sync.result = "apply error" /\ sync'.cams = sync.cams) =>
            (sync'.calls # {} \/ sync'.signal # "none") ]_vars

\* the path names the calls s of one kind were made for
Called(s, verb) == {c[2] : c \in {d \in s : d[1] = verb}}

\* C20: a Sync that applies a changed config through the admin API, every call
\* succeeding, deletes exactly the paths of the config it read that the new one lacks,
\* adds exactly the new paths the config it read lacked and replaces exactly the
\* others; the router then has the paths of the new config if it had those
\* of the config read.
C20_ApiCallsAreTheDifference ==
    [][ (sync'.wrote /\ gcfg.apply = "api" /\ sync'.result = "nil") =>
            LET old == DOMAIN readExistingConfig(file).cfg.paths
                new == DOMAIN file'.text.paths
            IN  /\ Called(sync'.calls, "delete") = old \ new
                /\ Called(sync'.calls, "add") = new \ old
                /\ Called(sync'.calls, "replace") = new \cap old
                /\ router = old => router' = new ]_vars

\* one Sync deleted a path, replaced one and added one, and the router has the paths
\* of the file
C20_Witness ==
    /\ sync.wrote /\ gcfg.apply = "api" /\ sync.result = "nil"
    /\ Called(sync.calls, "delete") # {}
    /\ Called(sync.calls, "replace") # {}
    /\ Called(sync.calls, "add") # {}
    /\ router = DOMAIN file.text.paths

-----------------------------------------------------------------------------
(* Properties of the locks *)

\* Manager.mu: startUplink, stopUplink, StopByCamera and StopAll lock it on entry and
\* unlock it on return, and reconcileOnce locks it around stopProcess; the Launcher
\* calls of an operation are all made in between
LockedLauncherCalls(ev) ==
    IF ev.op \in {"Start", "Stop", "TTL", "StopByCamera", "StopAll", "Reconcile"}
    THEN ev.lcalls ELSE <<>>

\* the statuses handed to the status hook while Manager.mu is locked: all of them,
\* but those reconcileOnce reports right after InspectStatus
LockedStatuses(ev) ==
    IF ev.op = "Reconcile"
    THEN {s \in ev.statuses : s.Error \in {"container state", "remove docker container"}}
    ELSE ev.statuses

\* C21: no operation of the UplinkManager starts or stops the Launcher, or invokes the
\* status hook, while it holds the UplinkManager mutex.
C21_NoCallUnderMutex ==
    /\ LockedLauncherCalls(last) = <<>>
    /\ LockedStatuses(last) = {}

-----------------------------------------------------------------------------
(* Properties of the shutdown *)

\* C22: once Run has handled the cancellation of its context, with a camera known,
\* no worker is left, no uplink is left in the UplinkManager's table, and stopAll
\* has called the media config Sync exactly once.
C22_ShutdownStopsAll ==
    (shut.cancelled /\ shut.cleaned # {}) =>
        /\ workers = <<>>
        /\ DOMAIN uplinks = {}
        /\ mtxGen => shut.syncs = 1

-----------------------------------------------------------------------------
(* Properties of a driver's Run *)

\* C23: Run has returned only if its context is done, so no failed attempt makes it
\* return; a wait after a failed attempt leads to a new attempt or, the context done,
\* to the return; and once the context is done Run returns, also from a send on a
\* full out-channel that nobody reads and from the wait.
C23_ReturnsOnlyOnCancel ==
    /\ [](drv.pc = "returned" => drv.ctx = "done")
    /\ (drv.pc = "backoff") ~> (drv.pc \in {"connect", "returned"})
    /\ (drv.ctx = "done") ~> (drv.pc = "returned")

\* Run returned after an attempt had failed and after the context was cancelled
\* during a send on a full out-channel
C23_Witness == drv.pc = "returned" /\ drv.failed /\ drv.blocked /\ drv.ch = ChanCap

\* C24: the out-channel of a worker is closed at most once, and only when the driver's
\* Run has returned; no event is sent on the closed channel; and the task that ranges
\* over the channel has exited only when the channel is closed and empty.
C24_ClosedOnceAfterRun ==
    /\ drv.closes <= 1
    /\ drv.closes = 1 => drv.pc = "returned"
    /\ ~drv.sentClosed
    /\ drv.fan = "exited" => (drv.closes = 1 /\ drv.ch = 0)

\* the channel was closed with events in it, and the ranging task received them and
\* exited
C24_Witness == drv.closes = 1 /\ drv.fan = "exited" /\ drv.got = ChanCap /\ drv.blocked


\* C28: the states the DahuaDriver has reported in its current attempt are, in order,
\* connecting, then not_established or online, then offline after online only; once
\* not_established or offline is reported the attempt has ended, and while the
\* stream is read the reports are connecting, online.
C28_StatusOrder ==
    drv.kind = "dahua" =>
        /\ drv.rep \in {<<>>, <<"connecting">>, <<"connecting", "not_established">>,
                        <<"connecting", "online">>, <<"connecting", "online", "offline">>}
        /\ drv.pc \in {"stream", "send"} => drv.rep = <<"connecting", "online">>
        /\ (drv.rep # <<>> /\ drv.rep[Len(drv.rep)] \in {"not_established", "offline"}) =>
              drv.pc \in {"backoff", "returned", "connect"}

\* an attempt of the DahuaDriver got its stream and lost it, and Run waits for the
\* next attempt
C28_Witness ==
    /\ drv.kind = "dahua" /\ drv.pc = "backoff"
    /\ drv.rep = <<"connecting", "online", "offline">>

-----------------------------------------------------------------------------
(* Properties of the SRT URL candidates *)

\* C25: every URL that BuildSRTURLCandidates returned has the scheme srt, a host that
\* is not empty and the streamid "publish:" followed by the path, whatever the
\* profile, the options and the extra parameters are; and no URL is twice in the list.
C25_CandidatesAreWellFormed ==
    srt.built =>
        /\ \A i \in DOMAIN srt.urls :
              /\ srt.urls[i].Scheme = "srt"
              /\ srt.urls[i].Host # ""
              /\ Get(srt.urls[i], "streamid") = StreamID(srt.path.pub + 1, srt.path.s)
        /\ \A i, j \in DOMAIN srt.urls : srt.urls[i] = srt.urls[j] => i = j

-----------------------------------------------------------------------------
(* Properties of the stored descriptor *)

\* C26: a descriptor that handleInfoMessage stored has a retention and a pre-roll
\* that are not negative, records exactly when its retention is positive, has a proxy
\* path that is not empty (the device id when the payload gave none) and a central
\* path that is not empty (tenant/building/deviceId when the payload gave none), and
\* has the five identity fields of the topic.
C26_StoredIsNormalised ==
    norm.stored =>
        /\ norm.info.RecordRetentionMinutes >= 0
        /\ norm.info.RecordEnabled <=> norm.info.RecordRetentionMinutes > 0
        /\ norm.info.PreRollSeconds >= 0
        /\ norm.info.ProxyPath # <<>>
        /\ TrimSpaces(norm.payload.ProxyPath) = <<>> => norm.info.ProxyPath = <<norm.topic.DeviceID>>
        /\ norm.info.CentralPath # <<>>
        /\ TrimSpaces(norm.payload.CentralPath) = <<>> =>
              norm.info.CentralPath =
                  <<norm.topic.Tenant, norm.topic.Building, norm.topic.DeviceID>>
        /\ \A f \in {"Tenant", "Building", "Floor", "DeviceType", "DeviceID"} :
              norm.info[f] = norm.topic[f]

-----------------------------------------------------------------------------
(* Properties of the status loop *)

\* a stored descriptor whose camera cannot be driven: no driver is registered for
\* it, or its driver has made attempts and all of them failed
Undrivable(key) ==
    \/ ~GetDriver(cameras[key])
    \/ key \in DOMAIN workers /\ key \in stat.failing

\* C27: at every tick of the status loop, every camera with a stored descriptor that
\* cannot be driven gets a status message that reports not_established with a
\* reason, and the collector status of its building is published.
C27_UndrivableIsReported ==
    [][stat'.tick # stat.tick =>
        \A key \in DOMAIN cameras :
            Undrivable(key) =>
                /\ \E m \in stat'.cams :
                      m.key = key /\ m.status = "not_established" /\ m.reason # ""
                /\ BuildingOf(cameras[key]) \in stat'.buildings]_vars


\* C30: with CAMBUS_STATUS_INTERVAL_SECONDS set to 0 no status loop runs and no
\* camera status and no collector status is ever published; with the variable unset
\* the interval is 30 seconds.
C30_ZeroDisablesStatus ==
    /\ stat.env = EnvText(TRUE, TRUE, 0) =>
          /\ ~stat.loop
          /\ ~stat.tick /\ stat.cams = {} /\ stat.buildings = {}
    /\ stat.env = EnvUnset => stat.interval = 30

-----------------------------------------------------------------------------
(* Properties of the engines *)

\* the engines whose derived events count: enabled, and Process ended well
Contributes(e) == e.enabled /\ e.result = "ok"

\* the derived events of the contributing engines among the first n, in engine order
RECURSIVE Contributions(_, _, _)
Contributions(engines, evt, n) ==
    IF n = 0 THEN <<>>
    ELSE Contributions(engines, evt, n - 1) \o
         (IF Contributes(engines[n]) THEN [k \in 1..engines[n].n |-> Derived(n, evt, k)]
          ELSE <<>>)

\* C29: when ProcessAll has gone through its engines, no panic has left it, what it
\* returns is the concatenation, in engine order, of the derived events of the
\* enabled engines whose Process ended without error and without panic, and every
\* enabled engine, also one behind a failing engine, was called once with the event.
C29_ProcessAllIsolates ==
    /\ ~eng.panicked
    /\ eng.i > Len(eng.engines) =>
          /\ eng.out = Contributions(eng.engines, eng.evt, Len(eng.engines))
          /\ eng.calls = SelectSeq([i \in 1..Len(eng.engines) |-> <<i, eng.evt>>],
                                   LAMBDA c : eng.engines[c[1]].enabled)

\* ProcessAll has returned the events of an engine that came behind an engine that
\* panicked and had events ready
C29_Witness ==
    /\ eng.i > Len(eng.engines) /\ Len(eng.engines) = 2
    /\ eng.engines[1] = Engine(TRUE, "panic", 1)
    /\ eng.engines[2] = Engine(TRUE, "ok", 1)
    /\ eng.out = <<Derived(2, eng.evt, 1)>>

-----------------------------------------------------------------------------
(* Properties of a restarted worker *)

\* C31: the record of a worker that replaced a cancelled worker stays in the state
\* connecting, never connected and without last event, until its own driver has
\* reported a state or an event; nothing that comes from the cancelled worker
\* changes it.
C31_StaleTasksLeaveNewRecord ==
    (RestartKey \in DOMAIN workers /\ pipe.old.driver # "none" /\ ~pipe.fresh) =>
        /\ workers[RestartKey].status = "connecting"
        /\ ~workers[RestartKey].everConnected
        /\ workers[RestartKey].lastEventAt = 0

-----------------------------------------------------------------------------
(* Properties of the Manager's timers and of its reconcile pass *)

\* C32: the callback of a timer armed for one process, running after another process
\* was registered under the same key, leaves the table as it is: no stopCount is
\* incremented and no process is terminated.
C32_OldTimerLeavesNewProcess ==
    [][\A cb \in inflight.ttl :
          (cb.stale /\ inflight'.ttl = inflight.ttl \ {cb}) =>
              /\ uplinks' = uplinks
              /\ live' = live]_vars

\* C33: a reconcile pass that takes the mutex with the state of a process inspected
\* before another process was registered under the key leaves that process running
\* and its entry in the table.
C33_OldInspectLeavesNewProcess ==
    [][(inflight.cur # NoSnap /\ inflight.late /\ inflight'.cur = NoSnap) =>
          /\ inflight.cur.key \in DOMAIN uplinks'
          /\ live' = live]_vars

-----------------------------------------------------------------------------
(* Properties of the uplinks table between the operations *)

\* C34: between the operations of the Manager (its mutex is free), every entry of the
\* uplinks table stands for a process that the Launcher started and that the Manager
\* has not stopped since; so after a failed Start there is no entry under its key.
C34_EntriesAreRunning ==
    mode = uplinkModeContainer =>
        \A k \in DOMAIN uplinks : live[uplinks[k].container] >= 1

\* C35: between the operations of the Manager, every entry of the uplinks table has
\* startCount >= 1 and 0 <= stopCount < startCount.
C35_CountsOfAnEntry ==
    \A k \in DOMAIN uplinks :
        /\ uplinks[k].startCount >= 1
        /\ uplinks[k].stopCount >= 0
        /\ uplinks[k].stopCount < uplinks[k].startCount

\* an entry that was started twice and has one Stop counted
C35_Witness ==
    \E k \in DOMAIN uplinks : uplinks[k].startCount = 2 /\ uplinks[k].stopCount = 1

-----------------------------------------------------------------------------
(* Properties of the three mutexes *)

\* C36: the tasks do not deadlock on Supervisor.mu, Manager.mu and Generator.mu:
\* every task that waits for a mutex gets it (a task is past its Lock calls only by
\* having got each mutex it waited for).
C36_EveryWaiterAcquires ==
    \A t \in Tasks : Blocked(t) ~> ~Blocked(t)

\* the hook of a timer callback, inside Manager.mu, waits for Supervisor.mu, which
\* the handler of a descriptor holds, while the reconcile pass waits for Manager.mu
C36_Witness ==
    /\ Holds("timer", "Manager.mu") /\ Waits("timer", "Supervisor.mu")
    /\ Holds("info", "Supervisor.mu")
    /\ Waits("reconcile", "Manager.mu")

-----------------------------------------------------------------------------
(* Properties of the refresh tasks *)

\* C37: when no refresh task is left (none spawned and not yet run, none between its
\* snapshot and its Sync), the media config is the one of the stored descriptors.
C37_ConfigOfTheFinalSet ==
    (pending = 0 /\ inflight.snaps = {}) => mtxPaths = DOMAIN cameras

-----------------------------------------------------------------------------
(* Properties of a descriptor delivered again *)

\* C38: a descriptor equal to the stored one, delivered again, leaves startCount and
\* stopCount of every uplink entry as they are.
C38_RedeliveryKeepsCounts ==
    [][ (did'.op = "info" /\ did'.kind = "enabled" /\ did'.repeat /\ cameras' = cameras) =>
            \A k \in DOMAIN uplinks :
                /\ k \in DOMAIN uplinks'
                /\ uplinks'[k].startCount = uplinks[k].startCount
                /\ uplinks'[k].stopCount = uplinks[k].stopCount ]_vars

-----------------------------------------------------------------------------
(* Properties of a WorkerRecord *)

\* C39: a WorkerRecord is created in the state connecting, never connected and
\* without last event; a record that is online has been connected; a record with a
\* last event has been connected; and a record that has been connected stays so.
C39_WorkerRecordInvariants ==
    /\ [](\A k \in DOMAIN workers :
            /\ workers[k].status = "online" => workers[k].everConnected
            /\ workers[k].lastEventAt # 0 => workers[k].everConnected)
    /\ [][\A k \in DOMAIN workers' :
            IF k \notin DOMAIN workers \/ (did'.started /\ did'.key = k)
            THEN /\ workers'[k].status = "connecting"
                 /\ ~workers'[k].everConnected
                 /\ workers'[k].lastEventAt = 0
            ELSE workers[k].everConnected => workers'[k].everConnected]_vars

\* a record that got an event, was reported online and then went offline
C39_Witness ==
    \E k \in DOMAIN workers :
        /\ workers[k].status = "offline"
        /\ workers[k].lastEventAt # 0
        /\ workers[k].everConnected

====
